---------------------------- MODULE Spec2Model ----------------------------
(***************************************************************************)
(* A model of xmva: the reference resolver (preprocessor.rs), the template *)
(* lexer, the surface compiler and the repeat expander / macro assembler   *)
(* (_compiler.rs; tokenize_surface also as compiler/token.rs has it).       *)
(*                                                                         *)
(* Text is a sequence of one-character strings.  A token is a record       *)
(* [type, value, n]: value is the text a Raw / NamedArgumentRef / SkipLast *)
(* / Key token carries, n the index an UnamedArgumentRef carries.          *)
(***************************************************************************)
EXTENDS Integers, Sequences, FiniteSets, TLC

VARIABLES
    \* CompilerToken::tokenize or preprocessor_string_tokenizer, run one
    \* character at a time
    c_s,        \* the characters of `s` consumed so far
    c_lex,      \* [state, parts, err]: the lexer's locals
    c_pc,       \* "loop" | "returned" | "surfaced"
    c_grammar,  \* "template" | "reference": the lexer that runs
    c_surface,  \* what each copy of tokenize_surface returns for `s`
    \* preprocess_key_name_pairs
    prefix,     \* common_keys.prefix
    cfg_pairs,  \* [preamble_keys, definitions]: the (key, name) pairs configured
    cfg_keys,   \* the key table as it was loaded (never written)
    keys,       \* the key table: key -> [variant, state, tags, string]
    left,       \* entries that were deferred by the sweep before
    now_left,   \* entries deferred so far by the current sweep
    todo,       \* keys the current sweep has not visited yet
    r_pc,       \* "load" | "while" | "for" | "check" | "returned"
    r_result,   \* "None" | "Ok" | the ErrorKind returned
    \* preprocess_strings
    strings,    \* preprocessable_strings: Vec of [variant, state, tags, string]
    s_i,        \* position in preprocessable_strings
    s_pc,       \* "idle" | "for" | "returned" | "panicked"
    s_result,   \* "None" | "Ok" | the ErrorKind returned | "panic"
    \* Config::compile_and_assemble
    loaded,             \* the config as it was handed over (never written)
    named,              \* the table of load_named_arguments: key -> name
    compilable,         \* position in compilable_strings
    file_preamble,      \* `preamble`: the text of assemble_preamble, once assembled
    config,             \* [common, core, generator]: the strings are written in place
    a_pc,               \* "load" | "surface" | "preamble" | "generator" | "for" | "tokens" |
                        \* "postamble" | "returned" | "panicked"
    suffix,             \* index of the generator being compiled
    le_tokens,          \* the tokens of the generator's repeat body
    generated_repeats,  \* the #define lines written so far: [name, params, body]
    current_repetiton,  \* the count whose macro is being written
    iter_i,             \* `i` of `for i in 0..j`
    iter_j,             \* `j = current_repetiton/va_args`
    tok,                \* position in le_tokens
    repeats,            \* Vec of the finished repeat sections
    generators,         \* Vec of the generator macros
    main_macro,         \* the outer macro, once assembled
    a_result            \* "None" | "Ok" | the ErrorKind returned | "panic"

lexVars == <<c_s, c_lex, c_pc, c_grammar, c_surface>>
stringVars == <<strings, s_i, s_pc, s_result>>
resolverVars == <<prefix, cfg_pairs, cfg_keys, keys, left, now_left, todo, r_pc, r_result,
                  stringVars>>
surfaceVars == <<loaded, named, compilable, file_preamble>>
assemblerVars == <<surfaceVars, config, a_pc, suffix, le_tokens, generated_repeats,
                   current_repetiton, iter_i, iter_j, tok, repeats, generators,
                   main_macro, a_result>>
vars == <<lexVars, resolverVars, assemblerVars>>

-----------------------------------------------------------------------------
(* Bounds of the model.                                                    *)

\* longest template string fed to the template lexer
MaxLen == 5

\* number of user keys (preamble keys and definition keys) of a key table
NumKeys == 2

-----------------------------------------------------------------------------
(* Text helpers.                                                           *)

Digits == <<"0", "1", "2", "3", "4", "5", "6", "7", "8", "9">>

DigitChars == {Digits[k] : k \in 1..10}

DigitValue(ch) == (CHOOSE k \in 1..10 : Digits[k] = ch) - 1

\* usize::to_string: the decimal text of n, most significant digit first
RECURSIVE to_string(_)
to_string(n) ==
    IF n < 10 THEN <<Digits[n + 1]>>
    ELSE to_string(n \div 10) \o <<Digits[(n % 10) + 1]>>

\* the value of a run of ASCII digits read left to right, starting from acc
RECURSIVE DigitsValue(_, _)
DigitsValue(buf, acc) ==
    IF buf = <<>> THEN acc
    ELSE DigitsValue(Tail(buf), acc * 10 + DigitValue(Head(buf)))

\* a parser that takes one or more ASCII digits and no sign; -1 stands for Err
parse_digits_only(buf) ==
    IF buf = <<>> THEN -1
    ELSE IF \E k \in 1..Len(buf) : buf[k] \notin DigitChars THEN -1
    ELSE DigitsValue(buf, 0)

\* str::parse::<usize>: an optional '+', then one or more ASCII digits;
\* -1 stands for Err.  (Texts of the model are far too short to overflow.)
parse_usize(buf) ==
    LET body == IF buf # <<>> /\ Head(buf) = "+" THEN Tail(buf) ELSE buf
    IN  IF body = <<>> THEN -1
        ELSE IF \E k \in 1..Len(body) : body[k] \notin DigitChars THEN -1
        ELSE DigitsValue(body, 0)

\* the concatenation of a sequence of texts
RECURSIVE Concat(_)
Concat(ss) == IF ss = <<>> THEN <<>> ELSE Head(ss) \o Concat(Tail(ss))

\* str::replace for a one-character pattern: every `from` becomes `to`
RECURSIVE replace(_, _, _)
replace(text, from, to) ==
    IF text = <<>> THEN <<>>
    ELSE (IF Head(text) = from THEN to ELSE <<Head(text)>>)
         \o replace(Tail(text), from, to)

-----------------------------------------------------------------------------
(* Sigil classifier of the template grammar (sigil.rs, CompilerSigil).     *)

CompilerSigil(ch) ==
    CASE ch = "$"  -> "TokenStart"
      [] ch = "\\" -> "TokenEmbed"
      [] ch = "."  -> "PositionDot"
      [] ch = "{"  -> "NamedArgumentRefOpen"
      [] ch = "}"  -> "NamedArgumentRefClose"
      [] ch = "("  -> "UnamedArgumentRefOpen"
      [] ch = ")"  -> "UnamedArgumentRefClose"
      [] ch = "["  -> "SkipLastOpen"
      [] ch = "]"  -> "SkipLastClose"
      [] OTHER     -> "Non"

-----------------------------------------------------------------------------
(* Template tokens and the template lexer (CompilerToken::tokenize).       *)

Raw(text)               == [type |-> "Raw", value |-> text, n |-> 0]
NamedArgumentRef(text)  == [type |-> "NamedArgumentRef", value |-> text, n |-> 0]
UnamedArgumentRef(k)    == [type |-> "UnamedArgumentRef", value |-> <<>>, n |-> k]
Position                == [type |-> "Position", value |-> <<>>, n |-> 0]
SkipLast(text)          == [type |-> "SkipLast", value |-> text, n |-> 0]

LexState(kind, buffer) == [kind |-> kind, buffer |-> buffer]

\* the locals of tokenize before the first character
CompilerLexInit ==
    [state |-> LexState("Copying", <<>>), parts |-> <<>>, err |-> "None"]

LexFail(lx, kind) == [lx EXCEPT !.err = kind]
LexGo(lx, kind, buffer) == [lx EXCEPT !.state = LexState(kind, buffer)]
LexEmit(lx, token, kind, buffer) ==
    [lx EXCEPT !.parts = Append(@, token), !.state = LexState(kind, buffer)]

\* the Copying arm pushing the raw run even when it is empty
CopyingStep_pushing_empty(lx, ch) ==
    LET sg == CompilerSigil(ch)
        buffer == lx.state.buffer
    IN  CASE sg = "TokenStart" -> LexEmit(lx, Raw(buffer), "SigilFound", <<>>)
          [] sg = "TokenEmbed" -> LexGo(lx, "EmbedFound", buffer)
          [] OTHER -> LexGo(lx, "Copying", Append(buffer, ch))

\* the Copying arm
CopyingStep(lx, ch) ==
    LET sg == CompilerSigil(ch)
        buffer == lx.state.buffer
    IN  CASE sg = "TokenStart" ->
                 IF buffer # <<>>
                 THEN LexEmit(lx, Raw(buffer), "SigilFound", <<>>)
                 ELSE LexGo(lx, "SigilFound", <<>>)
          [] sg = "TokenEmbed" -> LexGo(lx, "EmbedFound", buffer)
          [] OTHER -> LexGo(lx, "Copying", Append(buffer, ch))

\* the EmbedFound arm taking any character for an embedded one
EmbedFoundStep_accepting_any(lx, ch) ==
    LexGo(lx, "Copying", Append(lx.state.buffer, ch))

\* the EmbedFound arm
EmbedFoundStep(lx, ch) ==
    LET sg == CompilerSigil(ch)
    IN  IF sg \in {"TokenStart", "TokenEmbed"}
        THEN LexGo(lx, "Copying", Append(lx.state.buffer, ch))
        ELSE LexFail(lx, "IllegalSymbol")

\* the SigilFound arm
SigilFoundStep(lx, ch) ==
    LET sg == CompilerSigil(ch)
    IN  CASE sg = "TokenStart" -> LexFail(lx, "IllegalSymbol")
          [] sg = "PositionDot" -> LexEmit(lx, Position, "Copying", <<>>)
          [] sg = "NamedArgumentRefOpen" ->
                 LexGo(lx, "CopyingNamedArgumentRef", <<>>)
          [] sg = "UnamedArgumentRefOpen" ->
                 LexGo(lx, "CopyingUnamedArgumentRef", <<>>)
          [] sg = "SkipLastOpen" -> LexGo(lx, "CopyingSkipLast", <<>>)
          [] OTHER -> LexFail(lx, "IllegalSymbol")

\* the CopyingNamedArgumentRef arm copying every character but the close
CopyingNamedArgumentRefStep_copying_sigils(lx, ch) ==
    LET sg == CompilerSigil(ch)
        buffer_key == lx.state.buffer
    IN  CASE sg = "NamedArgumentRefClose" ->
                 IF buffer_key = <<>> THEN LexFail(lx, "EmptyReference")
                 ELSE LexEmit(lx, NamedArgumentRef(buffer_key), "Copying", <<>>)
          [] OTHER -> LexGo(lx, "CopyingNamedArgumentRef", Append(buffer_key, ch))

\* the CopyingNamedArgumentRef arm
CopyingNamedArgumentRefStep(lx, ch) ==
    LET sg == CompilerSigil(ch)
        buffer_key == lx.state.buffer
    IN  CASE sg = "NamedArgumentRefClose" ->
                 IF buffer_key = <<>> THEN LexFail(lx, "EmptyReference")
                 ELSE LexEmit(lx, NamedArgumentRef(buffer_key), "Copying", <<>>)
          [] sg \in {"PositionDot", "Non"} ->
                 LexGo(lx, "CopyingNamedArgumentRef", Append(buffer_key, ch))
          [] OTHER -> LexFail(lx, "IllegalSymbol")

\* the CopyingUnamedArgumentRef arm
CopyingUnamedArgumentRefStep(lx, ch) ==
    LET sg == CompilerSigil(ch)
        buffer_key == lx.state.buffer
    IN  CASE sg = "UnamedArgumentRefClose" ->
                 IF buffer_key = <<>> THEN LexFail(lx, "EmptyReference")
                 ELSE IF parse_usize(buffer_key) < 0
                      THEN LexFail(lx, "InvalidReference")
                      ELSE LexEmit(lx, UnamedArgumentRef(parse_usize(buffer_key)),
                                   "Copying", <<>>)
          [] sg \in {"PositionDot", "Non"} ->
                 LexGo(lx, "CopyingUnamedArgumentRef", Append(buffer_key, ch))
          [] OTHER -> LexFail(lx, "IllegalSymbol")

\* the CopyingSkipLast arm pushing the token even when its body is empty
CopyingSkipLastStep_accepting_empty(lx, ch) ==
    LET sg == CompilerSigil(ch)
        buffer_key == lx.state.buffer
    IN  CASE sg = "SkipLastClose" -> LexEmit(lx, SkipLast(buffer_key), "Copying", <<>>)
          [] sg = "TokenEmbed" -> LexGo(lx, "CopyingSkipLastEmbed", buffer_key)
          [] OTHER -> LexGo(lx, "CopyingSkipLast", Append(buffer_key, ch))

\* the CopyingSkipLast arm
CopyingSkipLastStep(lx, ch) ==
    LET sg == CompilerSigil(ch)
        buffer_key == lx.state.buffer
    IN  CASE sg = "SkipLastClose" ->
                 IF buffer_key = <<>> THEN LexFail(lx, "EmptyReference")
                 ELSE LexEmit(lx, SkipLast(buffer_key), "Copying", <<>>)
          [] sg = "TokenEmbed" -> LexGo(lx, "CopyingSkipLastEmbed", buffer_key)
          [] OTHER -> LexGo(lx, "CopyingSkipLast", Append(buffer_key, ch))

\* the CopyingSkipLastEmbed arm taking any character for an embedded one
CopyingSkipLastEmbedStep_accepting_any(lx, ch) ==
    LexGo(lx, "CopyingSkipLast", Append(lx.state.buffer, ch))

\* the CopyingSkipLastEmbed arm
CopyingSkipLastEmbedStep(lx, ch) ==
    LET sg == CompilerSigil(ch)
    IN  IF sg \in {"SkipLastClose", "TokenEmbed"}
        THEN LexGo(lx, "CopyingSkipLast", Append(lx.state.buffer, ch))
        ELSE LexFail(lx, "IllegalSymbol")

\* one pass of `for ch in s.chars()`: the match on the lexer state
CompilerLexStep(lx, ch) ==
    LET kind == lx.state.kind
    IN  CASE kind = "Copying" -> CopyingStep(lx, ch)
          [] kind = "EmbedFound" -> EmbedFoundStep(lx, ch)
          [] kind = "SigilFound" -> SigilFoundStep(lx, ch)
          [] kind = "CopyingNamedArgumentRef" -> CopyingNamedArgumentRefStep(lx, ch)
          [] kind = "CopyingUnamedArgumentRef" -> CopyingUnamedArgumentRefStep(lx, ch)
          [] kind = "CopyingSkipLast" -> CopyingSkipLastStep(lx, ch)
          [] kind = "CopyingSkipLastEmbed" -> CopyingSkipLastEmbedStep(lx, ch)

\* the final match with InvalidToken for every unterminated state
CompilerLexEnd_all_invalid_token(lx) ==
    IF lx.state.kind = "Copying"
    THEN (IF lx.state.buffer # <<>>
          THEN [lx EXCEPT !.parts = Append(@, Raw(lx.state.buffer))]
          ELSE lx)
    ELSE LexFail(lx, "InvalidToken")

\* the match on the state the input ended in
CompilerLexEnd(lx) ==
    LET kind == lx.state.kind
    IN  CASE kind = "Copying" ->
                 IF lx.state.buffer # <<>>
                 THEN [lx EXCEPT !.parts = Append(@, Raw(lx.state.buffer))]
                 ELSE lx
          [] kind = "EmbedFound" -> LexFail(lx, "IllegalSymbol")
          [] OTHER -> LexFail(lx, "InvalidToken")

\* the loop over the characters; an Err returns at once
RECURSIVE CompilerLexRun(_, _)
CompilerLexRun(lx, text) ==
    IF text = <<>> \/ lx.err # "None" THEN lx
    ELSE CompilerLexRun(CompilerLexStep(lx, Head(text)), Tail(text))

\* CompilerToken::tokenize(s): [err, parts]; parts is meaningful when err = "None"
tokenize(text) ==
    LET ran == CompilerLexRun(CompilerLexInit, text)
        lx == IF ran.err # "None" THEN ran ELSE CompilerLexEnd(ran)
    IN  [err |-> lx.err, parts |-> IF lx.err = "None" THEN lx.parts ELSE <<>>]

\* untokenize with the Raw arm copying its text without re-escaping it
untokenize_raw_unescaped(token) ==
    CASE token.type = "Raw" -> token.value
      [] token.type = "Position" -> <<"$", ".">>
      [] token.type = "NamedArgumentRef" -> <<"$", "{">> \o token.value \o <<"}">>
      [] token.type = "UnamedArgumentRef" ->
             <<"$", "(">> \o to_string(token.n) \o <<")">>
      [] token.type = "SkipLast" ->
             <<"$", "[">>
             \o replace(replace(token.value, "\\", <<"\\", "\\">>), "]", <<"\\", "]">>)
             \o <<"]">>

\* CompilerToken::untokenize
untokenize(token) ==
    CASE token.type = "Raw" ->
             replace(replace(token.value, "\\", <<"\\", "\\">>), "$", <<"\\", "$">>)
      [] token.type = "Position" -> <<"$", ".">>
      [] token.type = "NamedArgumentRef" -> <<"$", "{">> \o token.value \o <<"}">>
      [] token.type = "UnamedArgumentRef" ->
             <<"$", "(">> \o to_string(token.n) \o <<")">>
      [] token.type = "SkipLast" ->
             <<"$", "[">>
             \o replace(replace(token.value, "\\", <<"\\", "\\">>), "]", <<"\\", "]">>)
             \o <<"]">>

\* tokens.into_iter().map(|x| x.untokenize()).collect::<Vec<String>>().join("")
untokenize_all(tokens) ==
    Concat([k \in 1..Len(tokens) |-> untokenize(tokens[k])])

\* token.get_bool("surface") of _compiler.rs and compiler.rs, whose Raw and
\* NamedArgumentRef carry #[strum(props(surface = true))]: Some(true) or None
get_bool_surface(token) == token.type \in {"Raw", "NamedArgumentRef"}

\* token.get_bool("surface") of compiler/token.rs, whose variants are
\* declared without any property: None for every token
token_get_bool_surface(token) == FALSE

\* CompilerToken::tokenize_surface of _compiler.rs and compiler.rs
tokenize_surface(text) ==
    LET lexed == tokenize(text)
    IN  IF lexed.err # "None" THEN lexed
        ELSE [err |-> "None",
              parts |-> [k \in 1..Len(lexed.parts) |->
                            IF get_bool_surface(lexed.parts[k]) THEN lexed.parts[k]
                            ELSE Raw(untokenize(lexed.parts[k]))]]

\* CompilerToken::tokenize_surface of compiler/token.rs
token_tokenize_surface(text) ==
    LET lexed == tokenize(text)
    IN  IF lexed.err # "None" THEN lexed
        ELSE [err |-> "None",
              parts |-> [k \in 1..Len(lexed.parts) |->
                            IF token_get_bool_surface(lexed.parts[k]) THEN lexed.parts[k]
                            ELSE Raw(untokenize(lexed.parts[k]))]]

-----------------------------------------------------------------------------
(* Sigil classifier of the reference grammar (sigil.rs, PreprocessorSigil). *)

PreprocessorSigil(ch) ==
    CASE ch = "@"  -> "TokenStart"
      [] ch = "\\" -> "TokenEmbed"
      [] ch = "{"  -> "KeyRefOpen"
      [] ch = "}"  -> "KeyRefClose"
      [] OTHER     -> "Non"

-----------------------------------------------------------------------------
(* The reference lexer (preprocessor_string_tokenizer).                    *)

Key(text) == [type |-> "Key", value |-> text, n |-> 0]

\* one pass of `for ch in s.chars()`: the match on the lexer state
PreprocessorLexStep(lx, ch) ==
    LET sg == PreprocessorSigil(ch)
        kind == lx.state.kind
        buffer == lx.state.buffer
    IN  CASE kind = "Copying" ->
                 (CASE sg = "TokenStart" ->
                           IF buffer # <<>>
                           THEN LexEmit(lx, Raw(buffer), "SigilFound", <<>>)
                           ELSE LexGo(lx, "SigilFound", <<>>)
                    [] sg = "TokenEmbed" -> LexGo(lx, "EmbedFound", buffer)
                    [] OTHER -> LexGo(lx, "Copying", Append(buffer, ch)))
          [] kind = "EmbedFound" ->
                 IF sg \in {"TokenStart", "TokenEmbed"}
                 THEN LexGo(lx, "Copying", Append(buffer, ch))
                 ELSE LexFail(lx, "IllegalSymbol")
          [] kind = "SigilFound" ->
                 IF sg = "KeyRefOpen"
                 THEN LexGo(lx, "CopyingKey", <<>>)
                 ELSE LexFail(lx, "IllegalSymbol")
          [] kind = "CopyingKey" ->
                 (CASE sg = "KeyRefClose" ->
                           IF buffer = <<>> THEN LexFail(lx, "EmptyReference")
                           ELSE LexEmit(lx, Key(buffer), "Copying", <<>>)
                    [] sg = "Non" -> LexGo(lx, "CopyingKey", Append(buffer, ch))
                    [] OTHER -> LexFail(lx, "IllegalSymbol"))

\* the match on the state the input ended in
PreprocessorLexEnd(lx) ==
    LET kind == lx.state.kind
    IN  CASE kind = "Copying" ->
                 IF lx.state.buffer # <<>>
                 THEN [lx EXCEPT !.parts = Append(@, Raw(lx.state.buffer))]
                 ELSE lx
          [] kind = "EmbedFound" -> LexFail(lx, "IllegalSymbol")
          [] OTHER -> LexFail(lx, "InvalidToken")

\* the loop over s.chars(): the state after a character is bound before the
\* next character is read
RECURSIVE PreprocessorLexRun(_, _)
PreprocessorLexRun(lx, text) ==
    IF text = <<>> \/ lx.err # "None" THEN lx
    ELSE CHOOSE ran \in {PreprocessorLexRun(next, Tail(text)) :
                             next \in {PreprocessorLexStep(lx, Head(text))}} : TRUE

\* preprocessor_string_tokenizer(s): [err, parts]
preprocessor_string_tokenizer(text) ==
    LET ran == PreprocessorLexRun(CompilerLexInit, text)
        lx == IF ran.err # "None" THEN ran ELSE PreprocessorLexEnd(ran)
    IN  [err |-> lx.err, parts |-> IF lx.err = "None" THEN lx.parts ELSE <<>>]

-----------------------------------------------------------------------------
(* Names, tags and key-table entries (config.rs, preprocessor.rs).         *)

\* Todo::from_tags_with_presets: the preset todo list, less what a tag removes
from_tags_with_presets(tags) ==
    IF \E k \in 1..Len(tags) : tags[k] = "NoPrefix"
    THEN <<>>
    ELSE <<"ApplyPrefix">>

\* StringWithTags::apply_tags: every todo applied to the string, in order
RECURSIVE apply_todos(_, _, _)
apply_todos(todo_vec, tagged_string, pfx) ==
    IF todo_vec = <<>> THEN tagged_string
    ELSE apply_todos(Tail(todo_vec), pfx \o tagged_string, pfx)

apply_tags(tags, string, pfx) ==
    apply_todos(from_tags_with_presets(tags), string, pfx)

\* an entry of the key table: a Name or a String behind its lock, either
\* NotPreprocessed (string is the source form) or Preprocessed (string is
\* the resolved text)
NotPreprocessedName(tags, string) ==
    [variant |-> "Name", state |-> "NotPreprocessed", tags |-> tags, string |-> string]

\* the write of a text that leaves the entry marked NotPreprocessed
written_not_marked(entry, text) == [entry EXCEPT !.string = text]

\* `*write_guard = Preprocessable::Preprocessed(text)`
PreprocessedAs(entry, text) ==
    [entry EXCEPT !.state = "Preprocessed", !.tags = <<>>, !.string = text]
PreprocessedString(text) ==
    [variant |-> "String", state |-> "Preprocessed", tags |-> <<>>, string |-> text]

\* Preprocess::into_preprocessor_tokens of a NotPreprocessed entry: a Name
\* has its tags applied first, a String is lexed as it is
into_preprocessor_tokens(entry, pfx) ==
    IF entry.variant = "Name"
    THEN preprocessor_string_tokenizer(apply_tags(entry.tags, entry.string, pfx))
    ELSE preprocessor_string_tokenizer(entry.string)

\* preprocessor_token_assembly_attempt: [kind, text] with kind "Some" (the
\* assembled string), "None" (a target is not preprocessed yet) or the
\* ErrorKind "NonExistantReference"
RECURSIVE assembly_loop(_, _, _)
assembly_loop(tokens, table, assembled_string) ==
    IF tokens = <<>> THEN [kind |-> "Some", text |-> assembled_string]
    ELSE LET token == Head(tokens)
         IN  IF token.type = "Raw"
             THEN assembly_loop(Tail(tokens), table, assembled_string \o token.value)
             ELSE IF token.value \notin DOMAIN table
                  THEN [kind |-> "NonExistantReference", text |-> <<>>]
                  ELSE IF table[token.value].state = "NotPreprocessed"
                       THEN [kind |-> "None", text |-> <<>>]
                       ELSE assembly_loop(Tail(tokens), table,
                                assembled_string \o table[token.value].string)

\* the attempt with the NotPreprocessed arm falling through: a target that
\* is not preprocessed yet contributes nothing instead of ending the attempt
RECURSIVE assembly_loop_falls_through(_, _, _)
assembly_loop_falls_through(tokens, table, assembled_string) ==
    IF tokens = <<>> THEN [kind |-> "Some", text |-> assembled_string]
    ELSE LET token == Head(tokens)
         IN  IF token.type = "Raw"
             THEN assembly_loop_falls_through(Tail(tokens), table,
                      assembled_string \o token.value)
             ELSE IF token.value \notin DOMAIN table
                  THEN [kind |-> "NonExistantReference", text |-> <<>>]
                  ELSE IF table[token.value].state = "NotPreprocessed"
                       THEN assembly_loop_falls_through(Tail(tokens), table,
                                assembled_string)
                       ELSE assembly_loop_falls_through(Tail(tokens), table,
                                assembled_string \o table[token.value].string)

assembly_attempt_falls_through(tokens, table) ==
    assembly_loop_falls_through(tokens, table, <<>>)

\* the attempt with a target that is not preprocessed yet taken for a
\* missing key
assembly_attempt_unresolved_is_error(tokens, table) ==
    LET attempt == assembly_loop(tokens, table, <<>>)
    IN  IF attempt.kind = "None"
        THEN [kind |-> "NonExistantReference", text |-> <<>>]
        ELSE attempt

preprocessor_token_assembly_attempt(tokens, table) ==
    assembly_loop(tokens, table, <<>>)

-----------------------------------------------------------------------------
(* The key resolver (preprocess_key_name_pairs), one entry at a time.      *)
(* HashMap iteration order is unspecified: a sweep visits the entries in   *)
(* any order.                                                              *)

AssemblerIdle ==
    /\ loaded = <<>>
    /\ named = <<>>
    /\ compilable = 0
    /\ file_preamble = <<>>
    /\ config = <<>>
    /\ a_pc = "idle"
    /\ suffix = 0
    /\ le_tokens = <<>>
    /\ generated_repeats = <<>>
    /\ current_repetiton = 0
    /\ iter_i = 0
    /\ iter_j = 0
    /\ tok = 0
    /\ repeats = <<>>
    /\ generators = <<>>
    /\ main_macro = <<>>
    /\ a_result = "None"

StringsIdle ==
    /\ strings = <<>>
    /\ s_i = 0
    /\ s_pc = "idle"
    /\ s_result = "None"

ResolverIdle ==
    /\ prefix = <<>>
    /\ cfg_pairs = <<>>
    /\ cfg_keys = <<>>
    /\ keys = <<>>
    /\ left = 0
    /\ now_left = 0
    /\ todo = {}
    /\ r_pc = "idle"
    /\ r_result = "None"
    /\ StringsIdle

\* `while left != 0`: start a sweep, or fall out of the loop to Ok(())
WhileLeft ==
    /\ r_pc = "while"
    /\ IF left # 0
       THEN /\ now_left' = 0
            /\ todo' = DOMAIN keys
            /\ r_pc' = "for"
            /\ UNCHANGED r_result
       ELSE /\ r_result' = "Ok"
            /\ r_pc' = "returned"
            /\ UNCHANGED <<now_left, todo>>
    /\ UNCHANGED <<prefix, cfg_pairs, cfg_keys, keys, left, stringVars, lexVars, assemblerVars>>

\* the body of `for (key, preprocessable) in keys.iter()` for one entry; the
\* entry read, its tokens and the assembly attempt are each computed once
ForKey(key) ==
    /\ r_pc = "for"
    /\ key \in todo
    /\ \E entry \in {keys[key]} :
       \E lexed \in {into_preprocessor_tokens(entry, prefix)} :
       \E attempt \in {preprocessor_token_assembly_attempt(lexed.parts, keys)} :
       \E next_pc \in {IF todo \ {key} = {} THEN "check" ELSE "for"} :
           IF entry.state = "Preprocessed"
           THEN \* continue
                /\ todo' = todo \ {key}
                /\ r_pc' = next_pc
                /\ UNCHANGED <<keys, now_left, r_result>>
           ELSE IF lexed.err # "None"
           THEN \* into_preprocessor_tokens(common_keys)?
                /\ r_result' = lexed.err
                /\ r_pc' = "returned"
                /\ UNCHANGED <<keys, now_left, todo>>
           ELSE IF attempt.kind = "NonExistantReference"
           THEN \* preprocessor_token_assembly_attempt(tokens, &keys)?
                /\ r_result' = "NonExistantReference"
                /\ r_pc' = "returned"
                /\ UNCHANGED <<keys, now_left, todo>>
           ELSE IF attempt.kind = "None"
           THEN \* deferred
                /\ now_left' = now_left + 1
                /\ todo' = todo \ {key}
                /\ r_pc' = next_pc
                /\ UNCHANGED <<keys, r_result>>
           ELSE \* *write_guard = Preprocessable::Preprocessed(preprocessed_string)
                /\ keys' = [keys EXCEPT ![key] = PreprocessedAs(entry, attempt.text)]
                /\ todo' = todo \ {key}
                /\ r_pc' = next_pc
                /\ UNCHANGED <<now_left, r_result>>
    /\ UNCHANGED <<prefix, cfg_pairs, cfg_keys, left, stringVars, lexVars, assemblerVars>>

\* the progress check demanding that a sweep resolve two entries
progress_failed_off_by_one(guard_left, before) == guard_left + 1 >= before

\* the progress check with > for >=
progress_failed_strict(guard_left, before) == guard_left > before

\* the progress check failing as soon as a sweep deferred an entry
progress_failed_on_deferral(guard_left, before) == guard_left > 0

\* the progress check after the sweep: `&*guard_left >= &left`
progress_failed(guard_left, before) == guard_left >= before

CheckProgress ==
    /\ r_pc = "check"
    /\ IF progress_failed(now_left, left)
       THEN /\ r_result' = "MutualReferences"
            /\ r_pc' = "returned"
            /\ UNCHANGED left
       ELSE /\ left' = now_left
            /\ r_pc' = "while"
            /\ UNCHANGED r_result
    /\ UNCHANGED <<prefix, cfg_pairs, cfg_keys, keys, now_left, todo, stringVars, lexVars, assemblerVars>>

(* Key tables of the model: the seeded constant `prefix`, then NumKeys user *)
(* keys whose names are drawn from NameSamples.                            *)

KeyLetters == <<"a", "b", "c", "d", "e", "f", "g", "h">>
UserKeys == {<<KeyLetters[k]>> : k \in 1..NumKeys}
PrefixKey == <<"p", "r", "e", "f", "i", "x">>

KeyRef(key) == <<"@", "{">> \o key \o <<"}">>

NameSamples ==
    \* Name::Raw: untagged, the prefix is applied
    {NotPreprocessedName(<<>>, src) :
        src \in {<<"x">>,
                 KeyRef(<<"a">>) \o KeyRef(<<"b">>),
                 KeyRef(<<"z">>),
                 <<"@", "{">>,
                 <<"\\", "@", "{", "a", "}">>,
                 KeyRef(PrefixKey)}
                \cup {KeyRef(k) : k \in UserKeys}}
    \cup
    \* Name::Tagged with NO_PREFIX
    {NotPreprocessedName(<<"NoPrefix">>, src) : src \in {<<"y">>, KeyRef(<<"a">>)}}

\* common.prefix: a plain text, and a text that holds a sigil of the
\* reference grammar
PrefixSamples == {<<"P">>, <<"\\">>}

\* before Config::preprocess: nothing is loaded yet
ResolveInit ==
    /\ prefix = <<>>
    /\ cfg_pairs = <<>>
    /\ cfg_keys = <<>>
    /\ keys = <<>>
    /\ left = 0
    /\ now_left = 0
    /\ todo = {}
    /\ r_pc = "load"
    /\ r_result = "None"
    /\ StringsIdle
    /\ c_s = <<>>
    /\ c_lex = CompilerLexInit
    /\ c_pc = "idle"
    /\ c_grammar = "template"
    /\ c_surface = <<>>
    /\ AssemblerIdle

\* a (key, name) pair of the configuration: a preamble key or a definition
Pair(key, name) == [key |-> key, name |-> name]

\* the `for` loops over preamble keys and definitions: [err, keys]
RECURSIVE insert_pairs(_, _)
insert_pairs(pairs, table) ==
    IF pairs = <<>> THEN [err |-> "None", keys |-> table]
    ELSE IF Head(pairs).key \in DOMAIN table
         THEN [err |-> "DuplicateKey", keys |-> <<>>]
         ELSE insert_pairs(Tail(pairs), table @@ (Head(pairs).key :> Head(pairs).name))

\* the loading into a table that the common constants were not put in
load_key_name_pairs_unseeded(pfx, pairs) ==
    insert_pairs(pairs.preamble_keys \o pairs.definitions, <<>>)

\* Config::load_preprocessable_key_name_pairs: the String values of
\* common.keyable as Preprocessed entries, then the preamble keys, then the
\* definitions
load_preprocessable_key_name_pairs(pfx, pairs) ==
    insert_pairs(pairs.preamble_keys \o pairs.definitions,
                 PrefixKey :> PreprocessedString(pfx))

\* configurations with NumKeys distinct keys, the first a preamble key and
\* the others definitions, and configurations in which a key is met twice
KeyLists ==
    {[preamble_keys |-> <<Pair(<<KeyLetters[1]>>, names[<<KeyLetters[1]>>])>>,
      definitions |-> [k \in 1..NumKeys - 1 |->
                          Pair(<<KeyLetters[k + 1]>>, names[<<KeyLetters[k + 1]>>])]] :
        names \in [UserKeys -> NameSamples]}
    \cup
    {[preamble_keys |-> [k \in 1..Len(p) |-> Pair(p[k], NotPreprocessedName(<<>>, <<"x">>))],
      definitions |-> [k \in 1..Len(d) |-> Pair(d[k], NotPreprocessedName(<<>>, <<"x">>))]] :
        p \in {<<>>, <<<<"a">>>>, <<PrefixKey>>, <<<<"a">>, <<"a">>>>},
        d \in {<<>>, <<<<"a">>>>, <<<<"b">>, PrefixKey>>, <<<<"b">>, <<"b">>>>}}

\* the configurations of the model: every key list with the plain prefix;
\* with the other prefix the key lists whose definitions after the first
\* are all named "y" with NO_PREFIX
Configured(pfx, pairs) ==
    \/ pfx = <<"P">>
    \/ \A k \in 2..Len(pairs.definitions) :
          pairs.definitions[k].name = NotPreprocessedName(<<"NoPrefix">>, <<"y">>)

\* Config::preprocess: `self.load_preprocessable_key_name_pairs()?`, then
\* the entry of preprocess_key_name_pairs (`let mut left = keys.len()`)
LoadKeys ==
    /\ r_pc = "load"
    /\ \E pfx \in PrefixSamples, pairs \in KeyLists :
       \E table \in {load_preprocessable_key_name_pairs(pfx, pairs)} :
          /\ Configured(pfx, pairs)
          /\ prefix' = pfx
          /\ cfg_pairs' = pairs
          /\ keys' = table.keys
          /\ cfg_keys' = table.keys
          /\ left' = Cardinality(DOMAIN table.keys)
          /\ r_pc' = IF table.err = "None" THEN "while" ELSE "returned"
          /\ r_result' = table.err
    /\ UNCHANGED <<now_left, todo, stringVars, lexVars, assemblerVars>>

(* The string substitutor (preprocess_strings), one string at a time, run  *)
(* by Config::preprocess once preprocess_key_name_pairs has returned Ok.   *)

NotPreprocessedString(text) ==
    [variant |-> "String", state |-> "NotPreprocessed", tags |-> <<>>, string |-> text]

\* the sources of the strings of a configuration, each NotPreprocessed as
\* the deserializer leaves it
StringSamples ==
    {NotPreprocessedString(src) :
        src \in {<<"x">> \o KeyRef(<<"a">>),
                 KeyRef(<<"a">>) \o KeyRef(<<"b">>),
                 KeyRef(<<"z">>),
                 <<"@", "{">>,
                 <<"\\", "@", "{", "a", "}">>,
                 KeyRef(PrefixKey) \o <<"y">>}}

\* Config::load_preprocessable_strings: core.xmva and a generator's repeat
StringLists == {<<xmva, repeat>> : xmva \in StringSamples, repeat \in StringSamples}

\* the body of the loop with an entry that failed left Preprocessed and empty
preprocess_strings_body_writing_on_error(ps, table, pfx) ==
    LET lexed == into_preprocessor_tokens(ps, pfx)
        attempt == preprocessor_token_assembly_attempt(lexed.parts, table)
    IN  IF ps.state = "Preprocessed" THEN [result |-> "continue", ps |-> ps]
        ELSE IF lexed.err # "None" THEN [result |-> lexed.err, ps |-> ps]
        ELSE IF attempt.kind = "Some"
             THEN [result |-> "Ok", ps |-> PreprocessedAs(ps, attempt.text)]
        ELSE IF attempt.kind = "None" THEN [result |-> "panic", ps |-> ps]
        ELSE [result |-> attempt.kind, ps |-> PreprocessedAs(ps, <<>>)]

\* the body of the loop taking every string for a Preprocessed one
preprocess_strings_body_skipping(ps, table, pfx) == [result |-> "continue", ps |-> ps]

\* the body of `for ps in preprocessable_strings`: [result, ps] with result
\* "continue", "Ok" (ps is written), the ErrorKind returned, or "panic"
\* (the unreachable!() of the Ok(None) arm)
preprocess_strings_body(ps, table, pfx) ==
    LET lexed == into_preprocessor_tokens(ps, pfx)
        attempt == preprocessor_token_assembly_attempt(lexed.parts, table)
    IN  IF ps.state = "Preprocessed" THEN [result |-> "continue", ps |-> ps]
        ELSE IF lexed.err # "None" THEN [result |-> lexed.err, ps |-> ps]
        ELSE IF attempt.kind = "Some"
             THEN [result |-> "Ok", ps |-> PreprocessedAs(ps, attempt.text)]
        ELSE IF attempt.kind = "None" THEN [result |-> "panic", ps |-> ps]
        ELSE [result |-> attempt.kind, ps |-> ps]

\* Config::preprocess after `preprocess_key_name_pairs(..)?`
LoadStrings ==
    /\ r_pc = "returned"
    /\ r_result = "Ok"
    /\ s_pc = "idle"
    /\ strings' \in StringLists
    /\ s_i' = 1
    /\ s_pc' = "for"
    /\ UNCHANGED <<prefix, cfg_pairs, cfg_keys, keys, left, now_left, todo, r_pc, r_result,
                   s_result, lexVars, assemblerVars>>

\* one turn of `for ps in preprocessable_strings`, or the Ok(()) after it
PreprocessString ==
    /\ s_pc = "for"
    /\ IF s_i > Len(strings)
       THEN /\ s_result' = "Ok"
            /\ s_pc' = "returned"
            /\ UNCHANGED <<strings, s_i>>
       ELSE \E body \in {preprocess_strings_body(strings[s_i], keys, prefix)} :
               IF body.result \in {"continue", "Ok"}
               THEN /\ strings' = [strings EXCEPT ![s_i] = body.ps]
                    /\ s_i' = s_i + 1
                    /\ UNCHANGED <<s_pc, s_result>>
               ELSE /\ strings' = [strings EXCEPT ![s_i] = body.ps]
                    /\ s_result' = body.result
                    /\ s_pc' = IF body.result = "panic" THEN "panicked" ELSE "returned"
                    /\ UNCHANGED s_i
    /\ UNCHANGED <<prefix, cfg_pairs, cfg_keys, keys, left, now_left, todo, r_pc, r_result,
                   lexVars, assemblerVars>>

ResolveNext ==
    \/ LoadKeys
    \/ WhileLeft
    \/ \E key \in DOMAIN keys : ForKey(key)
    \/ CheckProgress

SpecResolve == ResolveInit /\ [][ResolveNext]_vars

\* the program runs on: a step that can be taken is taken
SpecResolveFair == SpecResolve /\ WF_vars(ResolveNext)

\* Config::preprocess: the loader, the resolver, then the string substitutor
PreprocessNext ==
    \/ LoadKeys
    \/ WhileLeft
    \/ \E key \in DOMAIN keys : ForKey(key)
    \/ CheckProgress
    \/ LoadStrings
    \/ PreprocessString

SpecPreprocess == ResolveInit /\ [][PreprocessNext]_vars

-----------------------------------------------------------------------------
(* The key-reference graph of the table as loaded.                         *)

\* the keys the source of entry k refers to (none when it does not lex)
Refs(k) ==
    LET entry == cfg_keys[k]
        lexed == into_preprocessor_tokens(entry, prefix)
    IN  IF entry.state = "Preprocessed" \/ lexed.err # "None" THEN {}
        ELSE {lexed.parts[i].value :
                 i \in {j \in 1..Len(lexed.parts) : lexed.parts[j].type = "Key"}}

\* the keys reached from the set S in at most n reference steps
RECURSIVE ReachWithin(_, _)
ReachWithin(S, n) ==
    IF n = 0 THEN S
    ELSE ReachWithin(S \cup UNION {Refs(k) : k \in S \cap DOMAIN cfg_keys}, n - 1)

\* the keys entry k depends on, directly or not
Reach(k) == ReachWithin(Refs(k), Cardinality(DOMAIN cfg_keys))

Acyclic == \A k \in DOMAIN cfg_keys : k \notin Reach(k)

EverySourceLexes ==
    \A k \in DOMAIN cfg_keys :
        cfg_keys[k].state = "NotPreprocessed" =>
            into_preprocessor_tokens(cfg_keys[k], prefix).err = "None"

EveryReferenceExists ==
    \A k \in DOMAIN cfg_keys : Refs(k) \subseteq DOMAIN cfg_keys

AllResolved == \A k \in DOMAIN keys : keys[k].state = "Preprocessed"

\* the key table is loaded: preprocess_key_name_pairs was entered
ResolverRuns ==
    /\ r_pc \in {"while", "for", "check", "returned"}
    /\ r_result # "DuplicateKey"

-----------------------------------------------------------------------------
(* C1: resolver convergence.                                               *)

\* C1: for every key table whose key-reference graph is acyclic, in which
\* every referenced key exists and every source lexes, the resolver
\* terminates with Ok and every entry Resolved, whatever the order in which
\* each sweep visits the entries.
C1_Convergence ==
    (ResolverRuns /\ Acyclic /\ EveryReferenceExists /\ EverySourceLexes)
        ~> (r_pc = "returned" /\ r_result = "Ok" /\ AllResolved)

\* an acyclic chain of three keys (the seeded constant last) resolved to Ok
C1_Witness ==
    /\ r_pc = "returned" /\ r_result = "Ok" /\ AllResolved
    /\ Acyclic /\ EveryReferenceExists /\ EverySourceLexes
    /\ \E k1, k2, k3 \in DOMAIN cfg_keys :
          /\ k1 # k2 /\ k2 # k3 /\ k1 # k3
          /\ k2 \in Refs(k1) /\ k3 \in Refs(k2)
    /\ left = 0 /\ now_left = 0

-----------------------------------------------------------------------------
(* C2: resolver termination.                                               *)

\* C2: on every key table, cyclic or not, the resolver stops after a bounded
\* number of sweeps: every run reaches its return (a sweep that does not end
\* the run strictly lowers `left`).
C2_Termination == (r_pc = "while") ~> (r_pc = "returned")

\* a run in which one sweep lowered the deferred count and a later sweep
\* ended the run with an error
C2_Witness ==
    /\ r_pc = "returned"
    /\ r_result = "MutualReferences"
    /\ 0 < left /\ left < Cardinality(DOMAIN keys)
    /\ ~Acyclic

-----------------------------------------------------------------------------
(* C3: resolver failure on self and mutual references.                     *)

\* keys whose source references itself, or that reference each other in pairs
SelfOrMutual ==
    {k \in DOMAIN cfg_keys :
        \E k2 \in DOMAIN cfg_keys : k2 \in Refs(k) /\ k \in Refs(k2)}

\* C3 as stated: when a key's source references itself, or two keys
\* reference each other, the resolver returns MutualReference and those keys
\* are still Unresolved, source form unchanged, when it returns.
C3_Failure ==
    (r_pc = "returned" /\ SelfOrMutual # {}) =>
        /\ r_result = "MutualReferences"
        /\ \A k \in SelfOrMutual : keys[k] = cfg_keys[k]

\* C3 as amended: in a table in which every source lexes and every
\* referenced key exists, when a key's source references itself, or two keys
\* reference each other, the resolver returns MutualReference and those keys
\* are still Unresolved, source form unchanged, when it returns.
C3_FailureWellFormed ==
    (/\ r_pc = "returned"
     /\ SelfOrMutual # {}
     /\ EverySourceLexes
     /\ EveryReferenceExists) =>
        /\ r_result = "MutualReferences"
        /\ \A k \in SelfOrMutual : keys[k] = cfg_keys[k]

\* the resolver returned MutualReference on a table with two keys that
\* reference each other, and both still hold their source
C3_Witness ==
    /\ r_pc = "returned"
    /\ r_result = "MutualReferences"
    /\ EverySourceLexes /\ EveryReferenceExists
    /\ \E k1, k2 \in SelfOrMutual : k1 # k2 /\ k2 \in Refs(k1) /\ k1 \in Refs(k2)
    /\ \A k \in SelfOrMutual : keys[k] = cfg_keys[k]

-----------------------------------------------------------------------------
(* The template lexer as a machine: the input is chosen a character at a   *)
(* time, so that every string of up to MaxLen characters is lexed.         *)

TemplateAlphabet ==
    {"$", "\\", ".", "{", "}", "(", ")", "[", "]", "a", "0", "+"}

TokenizeInit ==
    /\ c_s = <<>>
    /\ c_lex = CompilerLexInit
    /\ c_pc = "loop"
    /\ c_grammar = "template"
    /\ c_surface = <<>>
    /\ ResolverIdle
    /\ AssemblerIdle

\* one iteration of the loop over s.chars()
TokenizeChar(ch) ==
    /\ c_grammar = "template"
    /\ c_pc = "loop"
    /\ Len(c_s) < MaxLen
    /\ c_s' = Append(c_s, ch)
    /\ c_lex' = CompilerLexStep(c_lex, ch)
    /\ c_pc' = IF c_lex'.err # "None" THEN "returned" ELSE "loop"
    /\ UNCHANGED <<c_grammar, c_surface, resolverVars, assemblerVars>>

\* the input ends: the final match and the return
TokenizeEnd ==
    /\ c_grammar = "template"
    /\ c_pc = "loop"
    /\ c_lex' = CompilerLexEnd(c_lex)
    /\ c_pc' = "returned"
    /\ UNCHANGED <<c_s, c_grammar, c_surface, resolverVars, assemblerVars>>

TokenizeNext ==
    \/ \E ch \in TemplateAlphabet : TokenizeChar(ch)
    \/ TokenizeEnd

SpecTokenize == TokenizeInit /\ [][TokenizeNext]_vars

\* tokenize returned Ok(parts) for the input c_s
TokenizeOk == c_pc = "returned" /\ c_lex.err = "None"

-----------------------------------------------------------------------------
(* Both lexers as one machine: the grammar is chosen at the start, the     *)
(* input a character at a time; after the template lexer returned, each    *)
(* copy of tokenize_surface is applied to the same input.                  *)

ReferenceAlphabet == {"@", "\\", "{", "}", "a", "$"}

\* the template characters of this machine: every sigil, a letter, a digit
LexAlphabet == {"$", "\\", ".", "{", "}", "(", ")", "[", "]", "a", "0"}

LexInit ==
    /\ c_s = <<>>
    /\ c_lex = CompilerLexInit
    /\ c_pc = "loop"
    /\ c_grammar \in {"template", "reference"}
    /\ c_surface = <<>>
    /\ ResolverIdle
    /\ AssemblerIdle

\* one iteration of `for ch in s.chars()` of preprocessor_string_tokenizer
ReferenceChar(ch) ==
    /\ c_grammar = "reference"
    /\ c_pc = "loop"
    /\ Len(c_s) < MaxLen
    /\ c_s' = Append(c_s, ch)
    /\ c_lex' = PreprocessorLexStep(c_lex, ch)
    /\ c_pc' = IF c_lex'.err # "None" THEN "returned" ELSE "loop"
    /\ UNCHANGED <<c_grammar, c_surface, resolverVars, assemblerVars>>

\* the input ends: the final match of preprocessor_string_tokenizer
ReferenceEnd ==
    /\ c_grammar = "reference"
    /\ c_pc = "loop"
    /\ c_lex' = PreprocessorLexEnd(c_lex)
    /\ c_pc' = "returned"
    /\ UNCHANGED <<c_s, c_grammar, c_surface, resolverVars, assemblerVars>>

\* tokenize_surface(s) of _compiler.rs / compiler.rs and of compiler/token.rs
TokenizeSurface ==
    /\ c_grammar = "template"
    /\ c_pc = "returned"
    /\ c_surface' = [compiler |-> tokenize_surface(c_s),
                     token |-> token_tokenize_surface(c_s)]
    /\ c_pc' = "surfaced"
    /\ UNCHANGED <<c_s, c_lex, c_grammar, resolverVars, assemblerVars>>

LexNext ==
    \/ \E ch \in LexAlphabet : TokenizeChar(ch)
    \/ TokenizeEnd
    \/ TokenizeSurface
    \/ \E ch \in ReferenceAlphabet : ReferenceChar(ch)
    \/ ReferenceEnd

SpecLex == LexInit /\ [][LexNext]_vars

\* the lexer of grammar g returned Ok(parts) for the input c_s
LexOk(g) == c_grammar = g /\ c_pc = "returned" /\ c_lex.err = "None"

\* the lexer of grammar g returned the error `kind` for the input c_s
LexErr(g, kind) == c_grammar = g /\ c_pc = "returned" /\ c_lex.err = kind

-----------------------------------------------------------------------------
(* C5: round trip of the template lexer.                                   *)

\* no "$(" of the text is directly followed by '+' or by a '0' that another
\* digit follows: every indexed reference body is written canonically
CanonicalIndexBodies(text) ==
    \A p \in 1..Len(text) :
        (p + 2 <= Len(text) /\ text[p] = "$" /\ text[p + 1] = "(") =>
            /\ text[p + 2] # "+"
            /\ ~(/\ text[p + 2] = "0"
                 /\ p + 3 <= Len(text)
                 /\ text[p + 3] \in DigitChars)

\* C5 as stated: for every string s that tokenize accepts, the untokenized
\* tokens of tokenize(s), concatenated in order, are exactly s.
C5_RoundTrip ==
    TokenizeOk => untokenize_all(c_lex.parts) = c_s

\* C5 as amended: for every accepted string s whose indexed reference bodies
\* are canonical decimal text (no '+' sign, no leading zero), the untokenized
\* tokens of tokenize(s), concatenated in order, are exactly s.
C5_RoundTripCanonical ==
    (TokenizeOk /\ CanonicalIndexBodies(c_s)) =>
        untokenize_all(c_lex.parts) = c_s

\* an accepted string with a canonical indexed reference and a raw run
C5_Witness ==
    /\ TokenizeOk
    /\ CanonicalIndexBodies(c_s)
    /\ \E k \in 1..Len(c_lex.parts) : c_lex.parts[k].type = "UnamedArgumentRef"
    /\ \E k \in 1..Len(c_lex.parts) : c_lex.parts[k].type = "Raw"

-----------------------------------------------------------------------------
(* Macro names and parameter lists (_compiler.rs).                          *)

\* [String]::join(sep)
RECURSIVE join(_, _)
join(list, sep) ==
    IF list = <<>> THEN <<>>
    ELSE IF Len(list) = 1 THEN Head(list)
    ELSE Head(list) \o sep \o join(Tail(list), sep)

REPEAT_SECTION_SUFFIX == <<"_", "_", "A", "R", "G", "S", "_", "_">>

GENERATOR_SUFFIX == <<"_", "_", "G", "E", "N", "E", "R", "A", "T", "O", "R", "_", "_">>

generate_repeat_name(common, n, sfx) ==
    common.prefix \o REPEAT_SECTION_SUFFIX \o to_string(sfx) \o <<"_">> \o to_string(n)

generate_repeat_picker_macro_name(common, sfx) ==
    common.prefix \o REPEAT_SECTION_SUFFIX \o to_string(sfx)

generate_generator_macro_name(common, sfx) ==
    common.prefix \o GENERATOR_SUFFIX \o to_string(sfx)

\* format!("__{i}__")
placeholder(k) == <<"_", "_">> \o to_string(k) \o <<"_", "_">>

\* (0..n).map(|i| format!("__{i}__")).collect::<Vec<String>>()
placeholders(n) == [k \in 1..n |-> placeholder(k - 1)]

\* a `#define name(params) body` line, kept as its three texts
Line(name, params, body) == [name |-> name, params |-> params, body |-> body]

\* generated_repeats.push_str(text) while the body of the last line is written
push_str(lines, text) == [lines EXCEPT ![Len(lines)].body = @ \o text]

-----------------------------------------------------------------------------
(* The repeat expander (compile_and_assemble_repeat_string).                *)

\* the count-0 macro written with the repeat section as its body
count_zero_macro_as_repeat(common, core, generator, sfx) ==
    Line(generate_repeat_name(common, 0, sfx),
         join(core.named_args, <<",", " ">>),
         generator.preamble \o generator.postamble)

\* the count-0 macro: its body is the fallback-empty text
count_zero_macro(common, core, generator, sfx) ==
    Line(generate_repeat_name(common, 0, sfx),
         join(core.named_args, <<",", " ">>),
         generator.fallbacks.empty)

\* the head of the macro of a count >= 1: the named arguments, then one
\* placeholder for each trailing argument
count_macro_head(common, core, sfx, count) ==
    Line(generate_repeat_name(common, count, sfx),
         join(core.named_args, <<",", " ">>) \o <<",", " ">>
             \o join(placeholders(count), <<",", " ">>),
         <<>>)

\* the parity test taken on the count after this one
has_parity_of_next(count, va_args) == (count + 1) % va_args = 0

\* `current_repetiton % va_args == 0`
has_parity(count, va_args) == count % va_args = 0

\* the Raw arm
emit_Raw(s) == s

\* the Position arm writing the 0-based iteration
emit_Position_zero_based(i) == to_string(i)

\* the Position arm
emit_Position(i) == to_string(i + 1)

\* the UnamedArgumentRef arm advancing by one slot for each iteration
emit_UnamedArgumentRef_unit_stride(n, i, va_args) == placeholder(n + i)

\* the UnamedArgumentRef arm
emit_UnamedArgumentRef(n, i, va_args) == placeholder(n + i * va_args)

\* the SkipLast arm suppressing the first iteration instead of the last
emit_SkipLast_skips_first(s, i, j) == IF i # 0 THEN s ELSE <<>>

\* the SkipLast arm
emit_SkipLast(s, i, j) == IF j - 1 # i THEN s ELSE <<>>

\* the match on a token of the repeat body (NamedArgumentRef is unreachable!())
expand_token(token, i, j, va_args) ==
    CASE token.type = "Raw" -> emit_Raw(token.value)
      [] token.type = "Position" -> emit_Position(i)
      [] token.type = "UnamedArgumentRef" -> emit_UnamedArgumentRef(token.n, i, va_args)
      [] token.type = "SkipLast" -> emit_SkipLast(token.value, i, j)

\* the picker macro: one placeholder for each count, then __NAME__ and `...`
picker_macro(common, sfx) ==
    Line(generate_repeat_picker_macro_name(common, sfx),
         join(placeholders(common.repeats), <<",", " ">>)
             \o <<",", " ", "_", "_", "N", "A", "M", "E", "_", "_", ",", " ", ".", ".", ".">>,
         <<"_", "_", "N", "A", "M", "E", "_", "_">>)

\* assemble_generator_macro_string
assemble_generator_macro_string(common, core, sfx) ==
    Line(generate_generator_macro_name(common, sfx),
         join(core.named_args, <<",", " ">>) \o <<",", " ", "_", "_", "G", "E", "N", "_", "_", ",", " ", ".", ".", ".">>,
         <<"_", "_", "G", "E", "N", "_", "_", "(">> \o join(core.named_args, <<",", " ">>)
             \o <<",", " ", "_", "_", "V", "A", "_", "A", "R", "G", "S", "_", "_", ")">>)

\* the candidate names in ascending count order
picker_candidates_ascending(common, sfx) ==
    [k \in 1..common.repeats |-> generate_repeat_name(common, k - 1, sfx)]

\* (0..common.repeats).map(|j| generate_repeat_name(common, j, i)).rev()
picker_candidates(common, sfx) ==
    [k \in 1..common.repeats |-> generate_repeat_name(common, common.repeats - k, sfx)]

\* the invocation with the picker and the candidates of the first generator
generator_invocation_of_first(core, common, sfx) ==
    [generator   |-> generate_generator_macro_name(common, sfx),
     named       |-> join(core.named_args, <<",", " ">>),
     picker      |-> generate_repeat_picker_macro_name(common, 0),
     picker_args |-> <<"\"", "e", "m", "p", "t", "y", "\"", ",", " ", "#", "#", "_", "_", "V", "A", "_", "A", "R", "G", "S", "_", "_", ",", " ">>
                         \o join(picker_candidates(common, 0), <<",", " ">>)]

\* one pass of `for i in 0..generator_count`: the text
\* generator(named, picker(picker_args), __VA_ARGS__), kept as its parts
generator_invocation(core, common, sfx) ==
    [generator   |-> generate_generator_macro_name(common, sfx),
     named       |-> join(core.named_args, <<",", " ">>),
     picker      |-> generate_repeat_picker_macro_name(common, sfx),
     picker_args |-> <<"\"", "e", "m", "p", "t", "y", "\"", ",", " ", "#", "#", "_", "_", "V", "A", "_", "A", "R", "G", "S", "_", "_", ",", " ">>
                         \o join(picker_candidates(common, sfx), <<",", " ">>)]

\* assemble_main_macro_string
assemble_main_macro_string(core, common, generator_count) ==
    [name   |-> core.xmva,
     params |-> join(core.named_args, <<",", " ">>) \o <<",", " ", ".", ".", ".">>,
     body   |-> [k \in 1..generator_count |-> generator_invocation(core, common, k - 1)]]

-----------------------------------------------------------------------------------------------------------------------------------------------------
(* The surface compilation (load_named_arguments,                           *)
(* load_surface_compilable_strings, compile_surface_string).                *)

\* named.name of the a-th named argument of core.args, behind its lock
argument_name(core, a) ==
    IF a \in core.names_not_preprocessed
    THEN NotPreprocessedString(core.named_args[a])
    ELSE PreprocessedString(core.named_args[a])

\* the table with a repeated key left to the argument inserted last
load_named_arguments_overwriting(core) ==
    LET ks == core.named_keys
    IN  [err |-> "None",
         table |-> [key \in {ks[a] : a \in 1..Len(ks)} |->
                       argument_name(core, CHOOSE a \in 1..Len(ks) :
                           ks[a] = key /\ \A b \in 1..Len(ks) : ks[b] = key => b <= a)]]

\* Config::load_named_arguments: the table key -> name of the named
\* arguments, or DuplicateArgument when a key is inserted twice
load_named_arguments(core) ==
    LET ks == core.named_keys
    IN  IF \E a, b \in 1..Len(ks) : a < b /\ ks[a] = ks[b]
        THEN [err |-> "DuplicateArgument", table |-> <<>>]
        ELSE [err |-> "None",
              table |-> [key \in {ks[a] : a \in 1..Len(ks)} |->
                            argument_name(core, CHOOSE a \in 1..Len(ks) : ks[a] = key)]]

\* a shared handle (PreprocessableString) on one string of generator g
StringRef(g, field) == [g |-> g, field |-> field]

\* the string behind the handle is still Preprocessable::NotPreprocessed
not_preprocessed(cfg, ref) == ref.field \in cfg.generator[ref.g].not_preprocessed

\* the handles of generator g without the one on its repeat body
generator_compilable_strings_without_repeat(g) ==
    <<StringRef(g, "empty"), StringRef(g, "unparity"), StringRef(g, "postamble"),
      StringRef(g, "preamble")>>

\* the five handles load_surface_compilable_strings pushes for generator g
generator_compilable_strings(g) ==
    <<StringRef(g, "empty"), StringRef(g, "unparity"), StringRef(g, "postamble"),
      StringRef(g, "preamble"), StringRef(g, "repeat")>>

\* Config::load_surface_compilable_strings
load_surface_compilable_strings(cfg) ==
    Concat([g \in 1..Len(cfg.generator) |-> generator_compilable_strings(g)])

\* compilable_string.read()
read(cfg, ref) ==
    LET generator == cfg.generator[ref.g]
    IN  CASE ref.field = "empty" -> generator.fallbacks.empty
          [] ref.field = "unparity" -> generator.fallbacks.unparity
          [] ref.field = "postamble" -> generator.postamble
          [] ref.field = "preamble" -> generator.preamble
          [] ref.field = "repeat" -> generator.repeat

\* *compilable_string.write() = Preprocessed(text)
write(cfg, ref, text) ==
    CASE ref.field = "empty" ->
             [cfg EXCEPT !.generator[ref.g].fallbacks.empty = text]
      [] ref.field = "unparity" ->
             [cfg EXCEPT !.generator[ref.g].fallbacks.unparity = text]
      [] ref.field = "postamble" -> [cfg EXCEPT !.generator[ref.g].postamble = text]
      [] ref.field = "preamble" -> [cfg EXCEPT !.generator[ref.g].preamble = text]
      [] ref.field = "repeat" -> [cfg EXCEPT !.generator[ref.g].repeat = text]

\* `for token in tokens` of compile_surface_string: [err, value]
RECURSIVE surface_token_loop(_, _, _)
surface_token_loop(tokens, table, compiled_surface_string) ==
    IF tokens = <<>> THEN [err |-> "None", value |-> compiled_surface_string]
    ELSE LET token == Head(tokens)
         IN  CASE token.type = "Raw" ->
                      surface_token_loop(Tail(tokens), table,
                                         compiled_surface_string \o token.value)
               [] token.type = "NamedArgumentRef" ->
                      IF token.value \notin DOMAIN table
                      THEN [err |-> "NonExistantArgument", value |-> <<>>]
                      ELSE IF table[token.value].state = "NotPreprocessed"
                      THEN [err |-> "NotPreprocessed", value |-> <<>>]
                      ELSE surface_token_loop(Tail(tokens), table,
                               compiled_surface_string \o table[token.value].string)
               [] OTHER -> [err |-> "panic", value |-> <<>>]

\* compile_surface_string with the key of a reference copied as its value
compile_surface_string_keeping_keys(inner, table) ==
    LET tokens == tokenize_surface(inner)
    IN  IF tokens.err # "None" THEN [err |-> tokens.err, value |-> <<>>]
        ELSE surface_token_loop(tokens.parts,
                                [key \in DOMAIN table |-> PreprocessedString(key)], <<>>)

\* compile_surface_string up to the write: [err, value], value being the
\* text it is going to write
compile_surface_string(inner, table) ==
    LET tokens == tokenize_surface(inner)
    IN  IF tokens.err # "None" THEN [err |-> tokens.err, value |-> <<>>]
        ELSE surface_token_loop(tokens.parts, table, <<>>)

-----
(* Config::compile_and_assemble as a machine.  A record of the config     *)
(* names in not_preprocessed the strings of it that are NotPreprocessed     *)
(* (core.names_not_preprocessed: the named arguments whose name is);        *)
(* the config has no definitions; core.args lists the named arguments       *)
(* (named_keys, named_args), then the Varadict entries (varadict), and      *)
(* va_args is the count of the first Varadict entry.                        *)

\* the loop over core.args of assemble_generator_macro_string: the error
\* it returns
read_named_args(core) ==
    IF \E a \in 1..Len(core.named_args) : a \in core.names_not_preprocessed
    THEN "NotPreprocessed"
    ELSE "None"

\* the loop over core.args that also takes the varadict count
\* (compile_and_assemble_repeat_string, assemble_main_macro_string): the
\* error it returns
read_args(core) ==
    IF read_named_args(core) # "None" THEN read_named_args(core)
    ELSE IF Len(core.varadict) > 1 THEN "DuplicateArgument"
    ELSE "None"

\* the reads of compile_and_assemble_repeat_string with the test of
\* some_va_args made first
repeat_string_reads_varadict_first(generator, core) ==
    IF Len(core.varadict) > 1 THEN "DuplicateArgument"
    ELSE IF core.varadict = <<>> THEN "NonExistantArgument"
    ELSE IF generator.not_preprocessed # {} \/ read_named_args(core) # "None"
    THEN "NotPreprocessed"
    ELSE "None"

\* compile_and_assemble_repeat_string up to CompilerToken::tokenize: the
\* error of the reads of the fallbacks, the preamble and the postamble, of
\* the loop over core.args, of `let Some(va_args) = some_va_args else`, and
\* of the read of the repeat body
repeat_string_reads(generator, core) ==
    IF generator.not_preprocessed \ {"repeat"} # {} THEN "NotPreprocessed"
    ELSE IF read_args(core) # "None" THEN read_args(core)
    ELSE IF core.varadict = <<>> THEN "NonExistantArgument"
    ELSE IF "repeat" \in generator.not_preprocessed THEN "NotPreprocessed"
    ELSE "None"

\* assemble_main_macro_string up to the first push_str: the read of
\* core.xmva, then the loop over core.args
main_macro_reads(core) ==
    IF "xmva" \in core.not_preprocessed THEN "NotPreprocessed"
    ELSE read_args(core)

\* Config::assemble_preamble for a config without definitions: [err, text]
assemble_preamble(cfg) ==
    IF cfg.preamble = <<>> THEN [err |-> "None", text |-> <<>>]
    ELSE IF cfg.preamble[1].state = "NotPreprocessed"
    THEN [err |-> "NotPreprocessed", text |-> <<>>]
    ELSE [err |-> "None", text |-> cfg.preamble[1].string \o <<"\n">>]

\* load_named_arguments()? and load_surface_compilable_strings()
LoadArguments ==
    /\ a_pc = "load"
    /\ \E table \in {load_named_arguments(config.core)} :
           IF table.err # "None"
           THEN /\ a_result' = table.err
                /\ a_pc' = "returned"
                /\ UNCHANGED <<named, compilable>>
           ELSE /\ named' = table.table
                /\ compilable' = 1
                /\ a_pc' = IF load_surface_compilable_strings(config) = <<>>
                           THEN "preamble" ELSE "surface"
                /\ UNCHANGED a_result
    /\ UNCHANGED <<loaded, file_preamble, config, suffix, le_tokens, generated_repeats,
                   current_repetiton, iter_i, iter_j, tok, repeats, generators,
                   main_macro, lexVars, resolverVars>>

\* one pass of `for compilable in compilable_strings`: compile_surface_string
\* and, after the last string, on to the loop over the generators
CompileSurfaceString ==
    /\ a_pc = "surface"
    /\ \E ref \in {load_surface_compilable_strings(config)[compilable]} :
       \E compiled \in {compile_surface_string(read(config, ref), named)} :
           IF not_preprocessed(config, ref)
           THEN \* Preprocessable::NotPreprocessed(_) => return Err(..)
                /\ a_result' = "NotPreprocessed"
                /\ a_pc' = "returned"
                /\ UNCHANGED <<config, compilable>>
           ELSE IF compiled.err = "panic"
           THEN /\ a_result' = "panic"
                /\ a_pc' = "panicked"
                /\ UNCHANGED <<config, compilable>>
           ELSE IF compiled.err # "None"
           THEN /\ a_result' = compiled.err
                /\ a_pc' = "returned"
                /\ UNCHANGED <<config, compilable>>
           ELSE /\ config' = write(config, ref, compiled.value)
                /\ compilable' = compilable + 1
                /\ a_pc' = IF compilable = Len(load_surface_compilable_strings(config))
                           THEN "preamble" ELSE "surface"
                /\ UNCHANGED a_result
    /\ UNCHANGED <<loaded, named, file_preamble, suffix, le_tokens, generated_repeats,
                   current_repetiton, iter_i, iter_j, tok, repeats, generators,
                   main_macro, lexVars, resolverVars>>

\* `let preamble = self.assemble_preamble()?`
AssemblePreamble ==
    /\ a_pc = "preamble"
    /\ \E assembled \in {assemble_preamble(config)} :
           IF assembled.err # "None"
           THEN /\ a_result' = assembled.err
                /\ a_pc' = "returned"
                /\ UNCHANGED file_preamble
           ELSE /\ file_preamble' = assembled.text
                /\ a_pc' = "generator"
                /\ UNCHANGED a_result
    /\ UNCHANGED <<loaded, named, compilable, config, suffix, le_tokens,
                   generated_repeats, current_repetiton, iter_i, iter_j, tok, repeats,
                   generators, main_macro, lexVars, resolverVars>>

\* the generator compile_and_assemble_repeat_string is working on
this_generator == config.generator[suffix + 1]

\* the body of the line being written
current_body == generated_repeats[Len(generated_repeats)].body

\* `for (i, generator) in self.generator.iter().enumerate()`: the call of
\* compile_and_assemble_repeat_string up to the count-0 macro
StartRepeatString ==
    /\ a_pc = "generator"
    /\ suffix < Len(config.generator)
    /\ LET lexed == tokenize(this_generator.repeat)
           reads == repeat_string_reads(this_generator, config.core)
       IN  IF reads # "None"
           THEN /\ a_result' = reads
                /\ a_pc' = "returned"
                /\ UNCHANGED <<le_tokens, generated_repeats, current_repetiton>>
           ELSE IF lexed.err # "None"
           THEN \* CompilerToken::tokenize(le_stranger)?
                /\ a_result' = lexed.err
                /\ a_pc' = "returned"
                /\ UNCHANGED <<le_tokens, generated_repeats, current_repetiton>>
           ELSE /\ le_tokens' = lexed.parts
                /\ generated_repeats' =
                       <<count_zero_macro(config.common, config.core, this_generator, suffix)>>
                /\ current_repetiton' = 1
                /\ a_pc' = "for"
                /\ UNCHANGED a_result
    /\ UNCHANGED <<config, suffix, iter_i, iter_j, tok, repeats, generators,
                   main_macro, surfaceVars, lexVars, resolverVars>>

\* one pass of `for current_repetiton in 1..common.repeats` up to the
\* token loop: the head of the macro, then the parity test
ForRepetition ==
    /\ a_pc = "for"
    /\ current_repetiton < config.common.repeats
    /\ LET head == count_macro_head(config.common, config.core, suffix, current_repetiton)
           va_args == config.core.va_args
       IN  IF va_args = 0
           THEN \* `current_repetiton % va_args` divides by zero
                /\ generated_repeats' = Append(generated_repeats, head)
                /\ a_pc' = "panicked"
                /\ a_result' = "panic"
                /\ UNCHANGED <<current_repetiton, iter_i, iter_j, tok>>
           ELSE IF has_parity(current_repetiton, va_args)
           THEN /\ generated_repeats' =
                       Append(generated_repeats, [head EXCEPT !.body = this_generator.preamble])
                /\ iter_j' = current_repetiton \div va_args
                /\ iter_i' = 0
                /\ tok' = 1
                /\ a_pc' = IF le_tokens = <<>> THEN "postamble" ELSE "tokens"
                /\ UNCHANGED <<current_repetiton, a_result>>
           ELSE /\ generated_repeats' =
                       Append(generated_repeats,
                              [head EXCEPT !.body = this_generator.fallbacks.unparity])
                /\ current_repetiton' = current_repetiton + 1
                /\ UNCHANGED <<a_pc, a_result, iter_i, iter_j, tok>>
    /\ UNCHANGED <<config, suffix, le_tokens, repeats, generators, main_macro,
                   surfaceVars, lexVars, resolverVars>>

\* one pass of `for token in le_tokens.iter()` inside `for i in 0..j`
ForToken ==
    /\ a_pc = "tokens"
    /\ LET token == le_tokens[tok]
       IN  IF token.type = "NamedArgumentRef"
           THEN \* unreachable!()
                /\ a_pc' = "panicked"
                /\ a_result' = "panic"
                /\ UNCHANGED <<generated_repeats, iter_i, tok>>
           ELSE /\ generated_repeats' =
                       push_str(generated_repeats,
                                expand_token(token, iter_i, iter_j, config.core.va_args))
                /\ IF tok < Len(le_tokens)
                   THEN /\ tok' = tok + 1
                        /\ UNCHANGED <<iter_i, a_pc>>
                   ELSE IF iter_i + 1 < iter_j
                   THEN /\ iter_i' = iter_i + 1
                        /\ tok' = 1
                        /\ UNCHANGED a_pc
                   ELSE /\ a_pc' = "postamble"
                        /\ UNCHANGED <<iter_i, tok>>
                /\ UNCHANGED a_result
    /\ UNCHANGED <<config, suffix, le_tokens, current_repetiton, iter_j, repeats,
                   generators, main_macro, surfaceVars, lexVars, resolverVars>>

\* after `for i in 0..j`: the postamble and the end of the line
PushPostamble ==
    /\ a_pc = "postamble"
    /\ generated_repeats' = push_str(generated_repeats, this_generator.postamble)
    /\ current_repetiton' = current_repetiton + 1
    /\ a_pc' = "for"
    /\ UNCHANGED <<config, suffix, le_tokens, iter_i, iter_j, tok, repeats, generators,
                   main_macro, a_result, surfaceVars, lexVars, resolverVars>>

\* after the loop over the counts: the picker macro, Ok(generated_repeats),
\* then assemble_generator_macro_string for the same generator
FinishRepeatString ==
    /\ a_pc = "for"
    /\ current_repetiton >= config.common.repeats
    /\ generated_repeats' = Append(generated_repeats, picker_macro(config.common, suffix))
    /\ repeats' = Append(repeats, generated_repeats')
    /\ IF read_named_args(config.core) # "None"
       THEN /\ a_result' = read_named_args(config.core)
            /\ a_pc' = "returned"
            /\ UNCHANGED <<generators, suffix>>
       ELSE /\ generators' =
                   Append(generators,
                          assemble_generator_macro_string(config.common, config.core, suffix))
            /\ suffix' = suffix + 1
            /\ a_pc' = "generator"
            /\ UNCHANGED a_result
    /\ UNCHANGED <<config, le_tokens, current_repetiton, iter_i, iter_j, tok, main_macro,
                   surfaceVars, lexVars, resolverVars>>

\* after the loop over the generators: assemble_main_macro_string and Ok(file)
AssembleMainMacro ==
    /\ a_pc = "generator"
    /\ suffix = Len(config.generator)
    /\ IF main_macro_reads(config.core) # "None"
       THEN /\ a_result' = main_macro_reads(config.core)
            /\ UNCHANGED main_macro
       ELSE /\ main_macro' =
                   assemble_main_macro_string(config.core, config.common,
                                              Len(config.generator))
            /\ a_result' = "Ok"
    /\ a_pc' = "returned"
    /\ UNCHANGED <<config, suffix, le_tokens, generated_repeats, current_repetiton, iter_i,
                   iter_j, tok, repeats, generators, surfaceVars, lexVars, resolverVars>>

(* Configurations of the model.                                            *)

\* largest common.repeats
MaxRepeats == 5

Fallbacks(unparity, empty) == [unparity |-> unparity, empty |-> empty]

Generator(repeat, preamble, postamble, fallbacks) ==
    [repeat |-> repeat, preamble |-> preamble, postamble |-> postamble,
     fallbacks |-> fallbacks, not_preprocessed |-> {}]

GeneratorSamples ==
    {Generator(<<"$", "(", "0", ")", "$", "[", ",", "]">>, <<"<">>, <<">">>, Fallbacks(<<"U">>, <<"E">>)),
     Generator(<<"a", "$", ".">>, <<"{">>, <<"}">>, Fallbacks(<<"u">>, <<"e">>)),
     Generator(<<"$", "(", "1", ")", "$", ".">>, <<"[">>, <<"]">>, Fallbacks(<<"u">>, <<>>)),
     Generator(<<>>, <<"<">>, <<">">>, Fallbacks(<<"U">>, <<"E">>)),
     Generator(<<"\\", "$", "[">>, <<"<">>, <<">">>, Fallbacks(<<"U">>, <<"E">>)),
     Generator(<<"\\", "$", "{", "k", "}">>, <<"<">>, <<">">>, Fallbacks(<<"U">>, <<"E">>)),
     Generator(<<"$", "{", "k", "}", "$", ".">>, <<"$", "{", "k", "}">>, <<"\\", "$">>,
               Fallbacks(<<"$", ".">>, <<"$", "(", "0", "0", ")">>)),
     Generator(<<"$", "[">>, <<"<">>, <<">">>, Fallbacks(<<"U">>, <<"E">>))}

GeneratorLists ==
    {<<>>}
    \cup {<<g>> : g \in GeneratorSamples}
    \cup {<<g1, g2>> : g1 \in GeneratorSamples, g2 \in GeneratorSamples}

VaArgsSamples == {0, 1, 2, 3}

\* the Varadict entries of core.args: one, none, or two
VaradictSamples == {<<v>> : v \in VaArgsSamples} \cup {<<>>, <<1, 2>>}

\* the named arguments of core.args: [keys, names]
NamedArgsSamples ==
    {[keys |-> <<>>, names |-> <<>>],
     [keys |-> <<<<"k">>>>, names |-> <<<<"n">>>>],
     [keys |-> <<<<"k">>, <<"k">>>>, names |-> <<<<"n">>, <<"m">>>>]}

Core(args, varadict) ==
    [xmva |-> <<"X">>, named_keys |-> args.keys, named_args |-> args.names,
     varadict |-> varadict,
     va_args |-> IF varadict = <<>> THEN 0 ELSE varadict[1],
     not_preprocessed |-> {}, names_not_preprocessed |-> {}]

\* configs that went through Config::preprocess: every string Preprocessed
PreprocessedConfigs ==
    {[common    |-> [prefix |-> <<"P">>, repeats |-> r],
      preamble  |-> <<>>,
      core      |-> Core(args, varadict),
      generator |-> gs] :
        r \in 0..MaxRepeats, varadict \in VaradictSamples, args \in NamedArgsSamples,
        gs \in GeneratorLists}

\* configs with a preamble, and configs handed over with one string still
\* NotPreprocessed: core.xmva, a named argument's name, preamble.raw, or a
\* string of the first generator
UnpreprocessedConfigs ==
    LET base ==
            {cfg \in PreprocessedConfigs :
                /\ cfg.common.repeats = 2
                /\ cfg.core.named_keys = <<<<"k">>>>
                /\ Len(cfg.generator) <= 1
                /\ \A g \in 1..Len(cfg.generator) :
                      cfg.generator[g].repeat \in {<<"a", "$", ".">>,
                                                   <<"$", "{", "k", "}", "$", ".">>}}
    IN  {[cfg EXCEPT !.preamble = <<raw>>] :
            cfg \in base,
            raw \in {PreprocessedString(<<"r">>), NotPreprocessedString(<<"r">>)}}
        \cup {[cfg EXCEPT !.core.not_preprocessed = {"xmva"}] : cfg \in base}
        \cup {[cfg EXCEPT !.core.names_not_preprocessed = {1}] : cfg \in base}
        \cup {[cfg EXCEPT !.generator[1].not_preprocessed = {field}] :
                 cfg \in {c \in base : c.generator # <<>>},
                 field \in {"empty", "unparity", "postamble", "preamble", "repeat"}}

ConfigSamples == PreprocessedConfigs \cup UnpreprocessedConfigs

AssembleInit ==
    /\ config \in ConfigSamples
    /\ loaded = config
    /\ named = <<>>
    /\ compilable = 0
    /\ file_preamble = <<>>
    /\ a_pc = "load"
    /\ suffix = 0
    /\ le_tokens = <<>>
    /\ generated_repeats = <<>>
    /\ current_repetiton = 0
    /\ iter_i = 0
    /\ iter_j = 0
    /\ tok = 0
    /\ repeats = <<>>
    /\ generators = <<>>
    /\ main_macro = <<>>
    /\ a_result = "None"
    /\ c_s = <<>>
    /\ c_lex = CompilerLexInit
    /\ c_pc = "idle"
    /\ c_grammar = "template"
    /\ c_surface = <<>>
    /\ ResolverIdle

AssembleNext ==
    \/ LoadArguments
    \/ CompileSurfaceString
    \/ AssemblePreamble
    \/ StartRepeatString
    \/ ForRepetition
    \/ ForToken
    \/ PushPostamble
    \/ FinishRepeatString
    \/ AssembleMainMacro

SpecAssemble == AssembleInit /\ [][AssembleNext]_vars

\* the tokens of the repeat body of generator g (1-based)
RepeatTokens(g) == tokenize(config.generator[g].repeat).parts

\* the macro written for the count c in the finished repeat section g
CountMacro(g, c) == repeats[g][c + 1]

-----------------------------------------------------------------------------
(* C4: dispatch through the picker.  The C preprocessor binds the arguments *)
(* of a call to the parameters of the macro by position.                   *)

\* a comma-separated list split at each ", "
RECURSIVE SplitArguments(_, _)
SplitArguments(text, current) ==
    IF text = <<>> THEN <<current>>
    ELSE IF Len(text) >= 2 /\ text[1] = "," /\ text[2] = " "
    THEN <<current>> \o SplitArguments(SubSeq(text, 3, Len(text)), <<>>)
    ELSE SplitArguments(Tail(text), Append(current, Head(text)))

\* c trailing arguments of a caller
CallerArguments(c) == [k \in 1..c |-> <<"x">> \o to_string(k)]

\* the arguments the picker receives when the outer macro is invoked with the
\* trailing arguments `caller`: ##__VA_ARGS__ becomes those arguments, and
\* with none of them the comma before it goes as well
PickerCallArguments(invocation, caller) ==
    LET parts == SplitArguments(invocation.picker_args, <<>>)
    IN  Concat([k \in 1..Len(parts) |->
                   IF parts[k] = <<"#", "#", "_", "_", "V", "A", "_", "A", "R", "G", "S", "_", "_">> THEN caller ELSE <<parts[k]>>])

\* the expansion of the picker: its body is one of its parameters, replaced
\* by the argument in that position
PickerExpansion(picker, args) ==
    LET params == SplitArguments(picker.params, <<>>)
        slot == CHOOSE k \in 1..Len(params) : params[k] = picker.body
    IN  args[slot]

\* C4: for every repeat count R >= 1 and every number c of caller trailing
\* arguments with 0 <= c <= R-1, the argument list the outer macro passes to a
\* generator's picker ("empty", the c caller arguments, the R candidate names
\* in reverse count order), bound by position to the picker's R placeholders
\* and its __NAME__ slot, makes the picker expand to the name of that
\* generator's count-c macro.
C4_Dispatch ==
    (a_pc = "returned" /\ a_result = "Ok") =>
        \A g \in 1..Len(config.generator) : \A c \in 0..(config.common.repeats - 1) :
            LET picker == repeats[g][Len(repeats[g])]
                args == PickerCallArguments(main_macro.body[g], CallerArguments(c))
            IN  /\ main_macro.body[g].picker = picker.name
                /\ PickerExpansion(picker, args) = CountMacro(g, c).name

\* the second generator of a configuration with R >= 3, called with two
\* trailing arguments, picks its count-2 macro
C4_Witness ==
    /\ a_pc = "returned" /\ a_result = "Ok"
    /\ config.common.repeats >= 3
    /\ Len(config.generator) = 2
    /\ PickerExpansion(repeats[2][Len(repeats[2])],
                       PickerCallArguments(main_macro.body[2], CallerArguments(2)))
           = <<"P", "_", "_", "A", "R", "G", "S", "_", "_", "1", "_", "2">>
    /\ CountMacro(2, 2).name = <<"P", "_", "_", "A", "R", "G", "S", "_", "_", "1", "_", "2">>

-----------------------------------------------------------------------------
(* C6: the body of the macro of a count with parity.                       *)

\* the text of iteration i of j as C6 words it: Raw copied, Position the
\* decimal text of i + 1
C6_Iteration(tokens, i, j, V) ==
    Concat([t \in 1..Len(tokens) |->
               CASE tokens[t].type = "Raw" -> tokens[t].value
                 [] tokens[t].type = "Position" -> to_string(i + 1)
                 [] OTHER -> expand_token(tokens[t], i, j, V)])

\* C6: for every count c with 1 <= c <= R-1 and c mod V = 0, the body of the
\* count-c macro is the preamble, then j = c/V expansions of the repeat-body
\* token stream for i = 0, 1, ..., j-1 in that order, then the postamble; in
\* each expansion a Raw token is copied unchanged and a Position token emits
\* the decimal text of i+1.
C6_RepeatExpansion ==
    \A g \in 1..Len(repeats) : \A c \in 1..(config.common.repeats - 1) :
        LET V == config.core.va_args
            j == c \div V
        IN  (V >= 1 /\ c % V = 0) =>
                CountMacro(g, c).body =
                    config.generator[g].preamble
                    \o Concat([k \in 1..j |-> C6_Iteration(RepeatTokens(g), k - 1, j, V)])
                    \o config.generator[g].postamble

\* the repeat body "a$." expanded twice for the count 4 with V = 2
C6_Witness ==
    \E g \in 1..Len(repeats) :
        /\ config.generator[g].repeat = <<"a", "$", ".">>
        /\ config.core.va_args = 2
        /\ config.common.repeats >= 5
        /\ CountMacro(g, 4).body = <<"{", "a", "1", "a", "2", "}">>

-----------------------------------------------------------------------------
(* C7: the SkipLast token.                                                  *)

\* C7: in a count-c expansion with j = c/V iterations, every SkipLast(text)
\* token emits text in iterations 0..j-2 and emits nothing in iteration j-1
\* (so the text is written j-1 times, and not at all when j = 1).
C7_SkipLastElision ==
    [][(a_pc = "tokens" /\ le_tokens[tok].type = "SkipLast") =>
           current_body' =
               current_body \o (IF iter_i <= iter_j - 2 THEN le_tokens[tok].value ELSE <<>>)]_vars

\* the count-2 macro of the repeat body "$(0)$[,]" with V = 1: the two slot
\* names joined by one comma
C7_Witness ==
    \E g \in 1..Len(repeats) :
        /\ config.generator[g].repeat = <<"$", "(", "0", ")", "$", "[", ",", "]">>
        /\ config.core.va_args = 1
        /\ config.common.repeats >= 3
        /\ CountMacro(g, 2).body = <<"<", "_", "_", "0", "_", "_", ",", "_", "_", "1", "_", "_", ">">>
        /\ CountMacro(g, 1).body = <<"<", "_", "_", "0", "_", "_", ">">>

-----------------------------------------------------------------------------
(* C8: the UnamedArgumentRef token.                                         *)

\* C8: in iteration i (0-based) of a count-c expansion with group size V, an
\* IndexedArgRef(n) token emits the placeholder-parameter name of slot
\* n + i*V, the text __<n+i*V>__.
C8_IndexedSubstitution ==
    [][(a_pc = "tokens" /\ le_tokens[tok].type = "UnamedArgumentRef") =>
           current_body' =
               current_body \o <<"_", "_">>
               \o to_string(le_tokens[tok].n + iter_i * config.core.va_args)
               \o <<"_", "_">>]_vars

\* the repeat body "$(1)$." expanded twice for the count 4 with V = 2: slot 1,
\* then slot 3
C8_Witness ==
    \E g \in 1..Len(repeats) :
        /\ config.generator[g].repeat = <<"$", "(", "1", ")", "$", ".">>
        /\ config.core.va_args = 2
        /\ config.common.repeats >= 5
        /\ CountMacro(g, 4).body = <<"[", "_", "_", "1", "_", "_", "1", "_", "_", "3", "_", "_", "2", "]">>

-----------------------------------------------------------------------------
(* C9: the unparity fallback.                                               *)

\* C9: for every count c with 1 <= c <= R-1 and c mod V # 0, the body of the
\* count-c macro is exactly the generator's fallback-unparity text: no
\* preamble, repeat-body or postamble text.
C9_UnparityFallback ==
    \A g \in 1..Len(repeats) : \A c \in 1..(config.common.repeats - 1) :
        LET V == config.core.va_args
        IN  (V >= 1 /\ c % V # 0) =>
                CountMacro(g, c).body = config.generator[g].fallbacks.unparity

\* with V = 2 the count-3 macro is the fallback and the count-2 macro is not
C9_Witness ==
    \E g \in 1..Len(repeats) :
        /\ config.core.va_args = 2
        /\ config.common.repeats >= 4
        /\ config.generator[g].fallbacks.unparity = <<"U">>
        /\ CountMacro(g, 3).body = <<"U">>
        /\ CountMacro(g, 2).body # <<"U">>

-----------------------------------------------------------------------------
(* C10: the empty fallback.                                                 *)

\* C10: for every group size V the body of the count-0 macro is exactly the
\* generator's fallback-empty text, although 0 is a multiple of V; neither
\* the preamble nor the postamble is emitted for c = 0.
C10_EmptyFallback ==
    /\ \A g \in 1..Len(repeats) :
           CountMacro(g, 0).body = config.generator[g].fallbacks.empty
    /\ (a_pc \in {"for", "tokens", "postamble", "panicked"}) =>
           generated_repeats[1].body = this_generator.fallbacks.empty

\* a finished repeat section with V = 2 whose count-0 macro is the fallback
\* while its count-2 macro opens with the preamble
C10_Witness ==
    \E g \in 1..Len(repeats) :
        /\ config.core.va_args = 2
        /\ config.common.repeats >= 3
        /\ config.generator[g].preamble = <<"<">>
        /\ CountMacro(g, 0).body = <<"E">>
        /\ Head(CountMacro(g, 2).body) = "<"

-----------------------------------------------------------------------------
(* C11: the strings the surface compiler rewrites.                          *)

\* the strings of generator g other than its repeat body
OtherStrings(g) ==
    {StringRef(g, "empty"), StringRef(g, "unparity"), StringRef(g, "postamble"),
     StringRef(g, "preamble")}

\* compile_surface_strings returned Ok(())
SurfaceDone ==
    a_pc \in {"preamble", "generator", "for", "tokens", "postamble", "returned", "panicked"}
    /\ compilable > Len(load_surface_compilable_strings(loaded))

\* the expander holds the tokens of the current generator's repeat body
ExpanderLexed == a_pc \in {"for", "tokens", "postamble"}

-----------------------------------------------------------------------------
(* C12: surface tokenization.                                               *)

\* the token list C12 describes: Position, UnamedArgumentRef and SkipLast
\* become Raw tokens of their untokenized text, in place
SurfaceReduced(tokens) ==
    [k \in 1..Len(tokens) |->
        IF tokens[k].type \in {"Position", "UnamedArgumentRef", "SkipLast"}
        THEN Raw(untokenize(tokens[k]))
        ELSE tokens[k]]

\* what C12 has a copy of tokenize_surface return after tokenize returned lx
SurfaceOf(lx) ==
    IF lx.err # "None" THEN [err |-> lx.err, parts |-> <<>>]
    ELSE [err |-> "None", parts |-> SurfaceReduced(lx.parts)]

\* C12 as stated: every copy of tokenize_surface (_compiler.rs, compiler.rs,
\* compiler/token.rs) returns the tokens of tokenize with each Position,
\* UnamedArgumentRef and SkipLast replaced in place by the Raw token of its
\* untokenized text and each Raw and NamedArgumentRef unchanged, and fails
\* exactly when tokenize fails.
C12_SurfaceTokens ==
    c_pc = "surfaced" =>
        /\ c_surface.compiler = SurfaceOf(c_lex)
        /\ c_surface.token = SurfaceOf(c_lex)

\* the copies of _compiler.rs and compiler.rs do what C12 says for an input
\* with a named reference and a raw run, the copy of compiler/token.rs
\* returns another list
C12_Witness ==
    /\ c_pc = "surfaced"
    /\ c_lex.err = "None"
    /\ c_lex.parts = <<NamedArgumentRef(<<"a">>), Raw(<<"a">>)>>
    /\ c_surface.compiler = SurfaceOf(c_lex)
    /\ c_surface.token # SurfaceOf(c_lex)

-----------------------------------------------------------------------------
(* C13: surface substitution.                                               *)

\* the keys of the named arguments of core.args
ArgumentKeys == {config.core.named_keys[a] : a \in 1..Len(config.core.named_keys)}

\* the resolved name of the named argument whose key is `key`
ArgumentName(key) ==
    config.core.named_args[CHOOSE a \in 1..Len(config.core.named_keys) :
                               config.core.named_keys[a] = key]

\* the text of a token list with every NamedArgumentRef replaced by the name
\* of its argument, raw text copied and every other token kept as written
Substituted(tokens) ==
    Concat([k \in 1..Len(tokens) |->
               CASE tokens[k].type = "NamedArgumentRef" -> ArgumentName(tokens[k].value)
                 [] tokens[k].type = "Raw" -> tokens[k].value
                 [] OTHER -> untokenize(tokens[k])])

\* a token list refers to a key no named argument has
RefersToAbsentKey(tokens) ==
    \E k \in 1..Len(tokens) :
        tokens[k].type = "NamedArgumentRef" /\ tokens[k].value \notin ArgumentKeys

\* one call of compile_surface_string on a Preprocessed string that lexes,
\* the names of the arguments being Preprocessed, does what C13 says
SurfaceStep ==
    LET ref == load_surface_compilable_strings(config)[compilable]
        lexed == tokenize(read(config, ref))
    IN  (/\ a_pc = "surface"
         /\ lexed.err = "None"
         /\ ~not_preprocessed(config, ref)
         /\ config.core.names_not_preprocessed = {}) =>
            IF RefersToAbsentKey(lexed.parts)
            THEN /\ a_result' = "NonExistantArgument"
                 /\ a_pc' = "returned"
                 /\ config' = config
            ELSE /\ read(config', ref) = Substituted(lexed.parts)
                 /\ a_result' = "None"

\* C13: compile_surface_string replaces every NamedArgumentRef(name) by the
\* resolved name of the named argument whose key is name; when no named
\* argument has that key it returns NonExistantArgument and the string it
\* was compiling keeps its previous content.
C13_SurfaceSubstitution == [][SurfaceStep]_vars

\* compile_surface_strings stopped at the preamble "${k}" of a generator for
\* want of an argument with key k, after it rewrote the postamble before it
C13_Witness ==
    /\ a_pc = "returned"
    /\ a_result = "NonExistantArgument"
    /\ ArgumentKeys = {}
    /\ compilable = 4
    /\ config.generator[1].preamble = <<"$", "{", "k", "}">>
    /\ loaded.generator[1].postamble = <<"\\", "$">>
    /\ config.generator[1].postamble = <<"$">>

-----------------------------------------------------------------------------
(* C14: the embed character in raw text.                                    *)

\* the sigil of ch in the grammar that runs
SigilOf(ch) ==
    IF c_grammar = "template" THEN CompilerSigil(ch) ELSE PreprocessorSigil(ch)

\* the characters read by one step of the lexer loop: none when the step is
\* the end of the input
ReadChar == IF Len(c_s') > Len(c_s) THEN {c_s'[Len(c_s')]} ELSE {}

\* a step of either lexer out of EmbedFound does what C14 says
EmbedStep ==
    (c_pc = "loop" /\ c_lex.state.kind = "EmbedFound") =>
        \A ch \in ReadChar :
            IF SigilOf(ch) \in {"TokenStart", "TokenEmbed"}
            THEN /\ c_lex'.err = "None"
                 /\ c_lex'.state = LexState("Copying", Append(c_lex.state.buffer, ch))
                 /\ c_lex'.parts = c_lex.parts
            ELSE c_lex'.err = "IllegalSymbol"

\* a step of either lexer that reads the embed character while copying raw
\* text keeps the run that was copied so far and emits nothing
EmbedEntry ==
    (c_pc = "loop" /\ c_lex.state.kind = "Copying") =>
        \A ch \in ReadChar :
            SigilOf(ch) = "TokenEmbed" =>
                /\ c_lex'.err = "None"
                /\ c_lex'.state = LexState("EmbedFound", c_lex.state.buffer)
                /\ c_lex'.parts = c_lex.parts

\* the examples of C14, and raw runs that go on across an embedded character
EmbedExamples ==
    /\ (c_pc = "returned" /\ c_s = <<"\\", "\\">>) =>
           c_lex.err = "None" /\ c_lex.parts = <<Raw(<<"\\">>)>>
    /\ (c_pc = "returned" /\ c_s = <<"a", "\\", "\\", "a">>) =>
           c_lex.err = "None" /\ c_lex.parts = <<Raw(<<"a", "\\", "a">>)>>
    /\ (c_grammar = "template" /\ c_pc = "returned" /\ c_s = <<"\\", "$">>) =>
           c_lex.err = "None" /\ c_lex.parts = <<Raw(<<"$">>)>>
    /\ (c_grammar = "template" /\ c_pc = "returned" /\ c_s = <<"a", "\\", "$", "a">>) =>
           c_lex.err = "None" /\ c_lex.parts = <<Raw(<<"a", "$", "a">>)>>
    /\ (c_grammar = "reference" /\ c_pc = "returned" /\ c_s = <<"a", "\\", "@", "a">>) =>
           c_lex.err = "None" /\ c_lex.parts = <<Raw(<<"a", "@", "a">>)>>
    /\ (c_grammar = "reference" /\ c_pc = "returned" /\ c_s = <<"\\", "$">>) =>
           c_lex.err = "IllegalSymbol"

\* C14: in both lexers, while copying raw text, the embed character followed
\* by the token-start character or by another embed character appends that
\* follower to the raw run without ending it; the embed character followed
\* by any other character fails with IllegalSymbol. Two backslashes lex to
\* one Raw backslash, backslash-dollar to Raw "$" in the template grammar,
\* and the reference lexer rejects backslash-dollar.
C14_EmbedEscape == [][EmbedEntry /\ EmbedStep]_vars /\ []EmbedExamples

\* the reference lexer returned one raw run that holds an escaped token start
C14_Witness ==
    /\ c_grammar = "reference"
    /\ c_pc = "returned"
    /\ c_s = <<"a", "\\", "@", "a">>
    /\ c_lex.parts = <<Raw(<<"a", "@", "a">>)>>

-----------------------------------------------------------------------------
(* C15: raw tokens of the lexers.                                           *)

\* C15: the token lists of both lexers (tokenize and
\* preprocessor_string_tokenizer, not tokenize_surface) hold no empty Raw
\* token and no two adjacent Raw tokens.
C15_RawRuns ==
    /\ \A k \in 1..Len(c_lex.parts) :
           c_lex.parts[k].type = "Raw" => c_lex.parts[k].value # <<>>
    /\ \A k \in 1..(Len(c_lex.parts) - 1) :
           ~(c_lex.parts[k].type = "Raw" /\ c_lex.parts[k + 1].type = "Raw")

\* the reference lexer returned a key reference and the raw run after it:
\* two tokens, the raw one not empty
C15_Witness ==
    /\ LexOk("reference")
    /\ Len(c_lex.parts) = 2
    /\ c_lex.parts[1].type = "Key"
    /\ c_lex.parts[2] = Raw(<<"a">>)
    /\ c_s = <<"@", "{", "a", "}", "a">>

-----------------------------------------------------------------------------
(* C16: empty reference bodies.                                             *)

\* the states that copy the body of a reference
BodyStates ==
    {"CopyingKey", "CopyingNamedArgumentRef", "CopyingUnamedArgumentRef",
     "CopyingSkipLast"}

\* the sigil that closes the body a state copies
CloseOf(kind) ==
    CASE kind = "CopyingKey" -> "KeyRefClose"
      [] kind = "CopyingNamedArgumentRef" -> "NamedArgumentRefClose"
      [] kind = "CopyingUnamedArgumentRef" -> "UnamedArgumentRefClose"
      [] kind = "CopyingSkipLast" -> "SkipLastClose"

\* a step of either lexer that reads the close of an empty body fails
EmptyCloseStep ==
    (c_pc = "loop" /\ c_lex.state.kind \in BodyStates /\ c_lex.state.buffer = <<>>) =>
        \A ch \in ReadChar :
            SigilOf(ch) = CloseOf(c_lex.state.kind) =>
                /\ c_lex'.err = "EmptyReference"
                /\ c_pc' = "returned"
                /\ c_lex'.parts = c_lex.parts

\* the inputs of C16 are rejected, also after a raw run
EmptyExamples ==
    /\ (c_grammar = "reference" /\ c_pc = "returned"
            /\ c_s \in {<<"@", "{", "}">>, <<"a", "@", "{", "}">>})
           => c_lex.err = "EmptyReference"
    /\ (c_grammar = "template" /\ c_pc = "returned"
            /\ c_s \in {<<"$", "{", "}">>, <<"$", "(", ")">>, <<"$", "[", "]">>,
                        <<"a", "$", "{", "}">>, <<"a", "$", "(", ")">>,
                        <<"a", "$", "[", "]">>})
           => c_lex.err = "EmptyReference"

\* C16: in both lexers a reference whose body is empty when its close
\* character is read fails with EmptyReference: '@{}', '${}', '$()', '$[]'.
C16_EmptyReference == [][EmptyCloseStep]_vars /\ []EmptyExamples

\* the template lexer rejected "a$[]": the raw run before the empty
\* skip-last body was pushed, the call returns the error
C16_Witness ==
    /\ c_grammar = "template"
    /\ c_pc = "returned"
    /\ c_s = <<"a", "$", "[", "]">>
    /\ c_lex.err = "EmptyReference"

-----------------------------------------------------------------------------
(* C17: sigils inside key names and reference bodies.                       *)

\* the states C17 is about: a key name, a named or an indexed body
NameStates == {"CopyingKey", "CopyingNamedArgumentRef", "CopyingUnamedArgumentRef"}

\* the sigils of the grammar that runs which close a reference
CloseSigils ==
    IF c_grammar = "template"
    THEN {"NamedArgumentRefClose", "UnamedArgumentRefClose", "SkipLastClose"}
    ELSE {"KeyRefClose"}

\* ch has a sigil role that a name or body must not hold
ForbiddenInBody(kind, ch) ==
    /\ SigilOf(ch) # "Non"
    /\ SigilOf(ch) # CloseOf(kind)
    /\ ~(c_grammar = "template" /\ SigilOf(ch) = "PositionDot")

\* a step of either lexer inside a key name or a named or indexed body
\* rejects a forbidden character and copies any other that is not the close
BodySigilStep ==
    (c_pc = "loop" /\ c_lex.state.kind \in NameStates) =>
        \A ch \in ReadChar :
            IF ForbiddenInBody(c_lex.state.kind, ch)
            THEN c_lex'.err = "IllegalSymbol" /\ c_pc' = "returned"
            ELSE SigilOf(ch) # CloseOf(c_lex.state.kind) =>
                     /\ c_lex'.err = "None"
                     /\ c_lex'.state =
                            LexState(c_lex.state.kind, Append(c_lex.state.buffer, ch))

\* a step of either lexer that reads a close character while copying raw
\* text appends it to the raw run
RawCloseStep ==
    (c_pc = "loop" /\ c_lex.state.kind = "Copying") =>
        \A ch \in ReadChar :
            SigilOf(ch) \in CloseSigils =>
                /\ c_lex'.err = "None"
                /\ c_lex'.state = LexState("Copying", Append(c_lex.state.buffer, ch))
                /\ c_lex'.parts = c_lex.parts

\* the inputs of C17
BodySigilExamples ==
    /\ (c_grammar = "reference" /\ c_pc = "returned"
            /\ \E n \in 1..Len(c_s) :
                   SubSeq(c_s, 1, n) \in {<<"@", "{", "@">>, <<"@", "{", "{">>})
           => c_lex.err = "IllegalSymbol"
    /\ (c_grammar = "template" /\ c_pc = "returned"
            /\ \E n \in 1..Len(c_s) :
                   SubSeq(c_s, 1, n) \in {<<"$", "{", "{">>, <<"$", "(", "(">>})
           => c_lex.err = "IllegalSymbol"
    /\ (c_grammar = "reference" /\ c_pc = "returned" /\ c_s = <<"@", "{", "a", "}", "}">>)
           => c_lex.err = "None" /\ c_lex.parts = <<Key(<<"a">>), Raw(<<"}">>)>>

\* C17: while copying a key name or a named or indexed reference body, any
\* character with a sigil role other than the matching close - and, in the
\* template grammar, other than the position dot - fails with IllegalSymbol
\* ('@{@}', '@{{}', '${{}', '$(()'); a close character read while copying
\* raw text is ordinary text ('@{a}}' is accepted).
C17_BodySigils == [][BodySigilStep /\ RawCloseStep]_vars /\ []BodySigilExamples

\* the reference lexer accepted "@{a}}": the second close is raw text
C17_Witness ==
    /\ LexOk("reference")
    /\ c_s = <<"@", "{", "a", "}", "}">>
    /\ c_lex.parts = <<Key(<<"a">>), Raw(<<"}">>)>>

-----------------------------------------------------------------------------
(* C18: the body of a skip-last token.                                      *)

\* a step of the template lexer inside a skip-last body: the embed character
\* is set aside, every character but it and the close is appended as it is
SkipLastBodyStep ==
    (c_grammar = "template" /\ c_pc = "loop" /\ c_lex.state.kind = "CopyingSkipLast") =>
        \A ch \in ReadChar :
            /\ CompilerSigil(ch) \notin {"SkipLastClose", "TokenEmbed"} =>
                   /\ c_lex'.err = "None"
                   /\ c_lex'.state =
                          LexState("CopyingSkipLast", Append(c_lex.state.buffer, ch))
                   /\ c_lex'.parts = c_lex.parts
            /\ CompilerSigil(ch) = "TokenEmbed" =>
                   /\ c_lex'.err = "None"
                   /\ c_lex'.state = LexState("CopyingSkipLastEmbed", c_lex.state.buffer)
                   /\ c_lex'.parts = c_lex.parts

\* a step of the template lexer after an embed character of a skip-last body
SkipLastEmbedStep ==
    (c_grammar = "template" /\ c_pc = "loop"
         /\ c_lex.state.kind = "CopyingSkipLastEmbed") =>
        \A ch \in ReadChar :
            IF CompilerSigil(ch) \in {"SkipLastClose", "TokenEmbed"}
            THEN /\ c_lex'.err = "None"
                 /\ c_lex'.state =
                        LexState("CopyingSkipLast", Append(c_lex.state.buffer, ch))
                 /\ c_lex'.parts = c_lex.parts
            ELSE c_lex'.err = "IllegalSymbol" /\ c_pc' = "returned"

\* skip-last bodies with an open bracket, a token start, an escaped close
SkipLastExamples ==
    /\ (c_grammar = "template" /\ c_pc = "returned" /\ c_s = <<"$", "[", "[", "]">>)
           => c_lex.err = "None" /\ c_lex.parts = <<SkipLast(<<"[">>)>>
    /\ (c_grammar = "template" /\ c_pc = "returned" /\ c_s = <<"$", "[", "$", "]">>)
           => c_lex.err = "None" /\ c_lex.parts = <<SkipLast(<<"$">>)>>
    /\ (c_grammar = "template" /\ c_pc = "returned"
            /\ c_s = <<"$", "[", "\\", "]", "]">>)
           => c_lex.err = "None" /\ c_lex.parts = <<SkipLast(<<"]">>)>>
    /\ (c_grammar = "template" /\ c_pc = "returned" /\ c_s = <<"$", "[", "\\", "$">>)
           => c_lex.err = "IllegalSymbol"

\* C18: inside a SkipLast body every character other than the SkipLast close
\* and the embed character, sigils included, is appended literally ('$[[]'
\* gives SkipLast "["); the embed character followed by the SkipLast close
\* or by another embed character appends that follower and stays in the
\* body, and followed by anything else fails with IllegalSymbol.
C18_SkipLastBody ==
    [][SkipLastBodyStep /\ SkipLastEmbedStep]_vars /\ []SkipLastExamples

\* the template lexer returned a skip-last token whose body is an escaped
\* close bracket
C18_Witness ==
    /\ LexOk("template")
    /\ c_s = <<"$", "[", "\\", "]", "]">>
    /\ c_lex.parts = <<SkipLast(<<"]">>)>>

-----------------------------------------------------------------------------
(* C19: the end of the input in an unterminated state.                      *)

\* the step is the final match of a lexer: the input ended
InputEnds == c_pc = "loop" /\ c_pc' = "returned" /\ c_s' = c_s

\* what the function of the grammar that runs returns for the whole input
Returned(text) ==
    IF c_grammar = "template" THEN tokenize(text)
    ELSE preprocessor_string_tokenizer(text)

\* the input ends outside of raw text: InvalidToken, no tokens
UnterminatedStep ==
    (InputEnds /\ c_lex.state.kind # "Copying") =>
        /\ c_lex'.err = "InvalidToken"
        /\ Returned(c_s) = [err |-> "InvalidToken", parts |-> <<>>]

\* the input ends outside of raw text: IllegalSymbol after an embed
\* character of raw text, InvalidToken in every other state, no tokens
UnterminatedKindStep ==
    (InputEnds /\ c_lex.state.kind # "Copying") =>
        LET kind == IF c_lex.state.kind = "EmbedFound"
                    THEN "IllegalSymbol" ELSE "InvalidToken"
        IN  /\ c_lex'.err = kind
            /\ Returned(c_s) = [err |-> kind, parts |-> <<>>]

\* C19 as stated: when the input ends while a lexer is in an unterminated
\* state (SigilFound, EmbedFound, CopyingKey; SigilFound, EmbedFound, the
\* named, indexed, skip-last and skip-last-embed copying states), lexing
\* fails with InvalidToken and returns no tokens.
C19_Unterminated == [][UnterminatedStep]_vars

\* C19 as amended: when the input ends while a lexer is in SigilFound or in
\* a state that copies a key name or a named, indexed, skip-last or
\* skip-last-embed body, lexing fails with InvalidToken; when it ends in
\* EmbedFound, lexing fails with IllegalSymbol; no tokens are returned.
C19_UnterminatedKinds == [][UnterminatedKindStep]_vars

\* the template lexer met the end of "a\": a raw run, then an embed
\* character that nothing follows
C19_Witness ==
    /\ c_grammar = "template"
    /\ c_pc = "returned"
    /\ c_s = <<"a", "\\">>
    /\ c_lex.state.kind = "EmbedFound"
    /\ c_lex.err = "IllegalSymbol"

-----------------------------------------------------------------------------
(* C20: the body of an indexed reference.                                   *)

\* the text is one or more decimal digits
DecimalText(text) ==
    text # <<>> /\ \A k \in 1..Len(text) : text[k] \in DigitChars

\* the integer a text of decimal digits writes
RECURSIVE DecimalValue(_)
DecimalValue(text) ==
    IF text = <<>> THEN 0
    ELSE 10 * DecimalValue(SubSeq(text, 1, Len(text) - 1))
         + DigitValue(text[Len(text)])

\* the text without the '+' it may start with
Unsigned(text) == IF text # <<>> /\ Head(text) = "+" THEN Tail(text) ELSE text

\* the template lexer reads the close of a non-empty indexed body
IndexedClose(ch) ==
    /\ c_grammar = "template"
    /\ c_pc = "loop"
    /\ c_lex.state.kind = "CopyingUnamedArgumentRef"
    /\ c_lex.state.buffer # <<>>
    /\ CompilerSigil(ch) = "UnamedArgumentRefClose"

\* the step emits the indexed reference n and goes back to raw text
EmitsIndex(n) ==
    /\ c_lex'.err = "None"
    /\ c_lex'.parts = Append(c_lex.parts, UnamedArgumentRef(n))
    /\ c_lex'.state = LexState("Copying", <<>>)

\* the close of an indexed body: decimal digits or InvalidReference
IndexedCloseStep ==
    \A ch \in ReadChar :
        IndexedClose(ch) =>
            IF DecimalText(c_lex.state.buffer)
            THEN EmitsIndex(DecimalValue(c_lex.state.buffer))
            ELSE c_lex'.err = "InvalidReference" /\ c_pc' = "returned"

\* the close of an indexed body: decimal digits that a '+' may precede, or
\* InvalidReference
SignedIndexedCloseStep ==
    \A ch \in ReadChar :
        IndexedClose(ch) =>
            IF DecimalText(Unsigned(c_lex.state.buffer))
            THEN EmitsIndex(DecimalValue(Unsigned(c_lex.state.buffer)))
            ELSE c_lex'.err = "InvalidReference" /\ c_pc' = "returned"

\* C20 as stated: in the template lexer a non-empty indexed reference body
\* that is not the decimal text of a non-negative integer fails with
\* InvalidReference; otherwise the lexer emits UnamedArgumentRef carrying
\* that integer and returns to copying raw text with an empty buffer.
C20_IndexedBody == [][IndexedCloseStep]_vars

\* C20 as amended: in the template lexer a non-empty indexed reference body
\* that is not one or more decimal digits, optionally preceded by one '+',
\* fails with InvalidReference; otherwise the lexer emits UnamedArgumentRef
\* carrying the integer the digits write and returns to copying raw text
\* with an empty buffer.
C20_SignedIndexedBody == [][SignedIndexedCloseStep]_vars

\* the template lexer accepted "$(+0)" as the indexed reference 0
C20_Witness ==
    /\ TokenizeOk
    /\ c_s = <<"$", "(", "+", "0", ")">>
    /\ c_lex.parts = <<UnamedArgumentRef(0)>>

-----------------------------------------------------------------------------
(* C21: the string substitutor.                                            *)

\* the string the loop of preprocess_strings is at
StringAt == strings[s_i]

\* the tokens of a string's source
StringTokens(ps) == preprocessor_string_tokenizer(ps.string)

\* the source with every key reference replaced by the text of its target
RECURSIVE Spliced(_)
Spliced(tokens) ==
    IF tokens = <<>> THEN <<>>
    ELSE (IF Head(tokens).type = "Raw" THEN Head(tokens).value
          ELSE keys[Head(tokens).value].string) \o Spliced(Tail(tokens))

NamesAbsentKey(tokens) ==
    \E k \in 1..Len(tokens) :
        tokens[k].type = "Key" /\ tokens[k].value \notin DOMAIN keys

\* a turn of the loop at an Unresolved string whose source lexes
SubstitutionStep ==
    (/\ s_pc = "for"
     /\ s_i <= Len(strings)
     /\ StringAt.state = "NotPreprocessed"
     /\ StringTokens(StringAt).err = "None"
     /\ s_i' # s_i \/ s_pc' # s_pc)
    => IF NamesAbsentKey(StringTokens(StringAt).parts)
       THEN /\ s_pc' = "returned"
            /\ s_result' = "NonExistantReference"
            /\ strings' = strings
       ELSE /\ strings' = [strings EXCEPT ![s_i] =
                              [variant |-> "String", state |-> "Preprocessed",
                               tags |-> <<>>,
                               string |-> Spliced(StringTokens(StringAt).parts)]]
            /\ s_i' = s_i + 1
            /\ s_pc' = "for"
            /\ s_result' = "None"

\* the pass is single: the strings before the position are Resolved, the
\* strings from it on are as they were loaded, and the pass that returns Ok
\* has left every string Resolved
SinglePass ==
    s_pc \in {"for", "returned"} =>
        /\ AllResolved
        /\ \A k \in 1..Len(strings) :
              /\ k < s_i => strings[k].state = "Preprocessed"
              /\ k >= s_i => strings[k] \in StringSamples
        /\ s_result = "Ok" => s_i = Len(strings) + 1

\* C21: against the fully resolved key table, preprocess_strings turns each
\* Unresolved string into Resolved text in one pass, replacing every key
\* reference by the resolved text of its target, spliced verbatim; a string
\* that names an absent key ends the pass with NonExistantReference and stays
\* Unresolved.
C21_StringSubstitution == [][SubstitutionStep]_vars /\ []SinglePass

\* both strings are resolved, the second to the text of key a spliced in
\* with the reference-like run it holds left as it is
C21_Witness ==
    /\ s_pc = "for"
    /\ s_i = 3
    /\ strings[1].state = "Preprocessed"
    /\ strings[2].state = "Preprocessed"
    /\ <<"a">> \in DOMAIN keys
    /\ keys[<<"a">>].string = <<"P", "@", "{", "a", "}">>
    /\ strings[2].string = <<"x", "P", "@", "{", "a", "}">>

-----------------------------------------------------------------------------
(* C22: the names of the key table are unique.                             *)

\* the names in the order the loader meets them: the seeded constant, the
\* preamble keys, the definition keys
NamesInOrder ==
    <<PrefixKey>> \o [k \in 1..Len(cfg_pairs.preamble_keys) |-> cfg_pairs.preamble_keys[k].key]
                  \o [k \in 1..Len(cfg_pairs.definitions) |-> cfg_pairs.definitions[k].key]

PairsInOrder == cfg_pairs.preamble_keys \o cfg_pairs.definitions

NameMetTwice ==
    \E i, j \in 1..Len(NamesInOrder) : i < j /\ NamesInOrder[i] = NamesInOrder[j]

\* C22: the loader fails with DuplicateKey exactly when a name is met that
\* the table already holds, a user key named like the seeded constant
\* `prefix` included, and no table is handed on; otherwise the table holds
\* the seeded constant as a Resolved entry and each configured key with its
\* own name, and nothing else.
C22_UniqueKeys ==
    (r_pc # "load" /\ r_pc # "idle") =>
        IF NameMetTwice
        THEN /\ r_pc = "returned"
             /\ r_result = "DuplicateKey"
             /\ keys = <<>>
             /\ s_pc = "idle"
        ELSE /\ r_result # "DuplicateKey"
             /\ DOMAIN cfg_keys = {NamesInOrder[k] : k \in 1..Len(NamesInOrder)}
             /\ cfg_keys[PrefixKey] = PreprocessedString(prefix)
             /\ \A k \in 1..Len(PairsInOrder) :
                   cfg_keys[PairsInOrder[k].key] = PairsInOrder[k].name

\* the loader refused a definition named like the seeded constant
C22_Witness ==
    /\ r_pc = "returned"
    /\ r_result = "DuplicateKey"
    /\ cfg_pairs.preamble_keys = <<>>
    /\ Len(cfg_pairs.definitions) = 2
    /\ cfg_pairs.definitions[1].key = <<"b">>
    /\ cfg_pairs.definitions[2].key = PrefixKey

-----------------------------------------------------------------------------
(* C23: exactly one Varadict entry in core.args.                           *)

\* compile_and_assemble returned without an error: the file is produced
FileProduced == a_pc = "returned" /\ a_result = "Ok"

\* C23: whatever the number of generators, compile_and_assemble fails and
\* produces no text unless core.args holds exactly one Varadict entry.
C23_ExactlyOneVaradict ==
    (a_pc = "returned" /\ Len(config.core.varadict) # 1) =>
        /\ a_result # "Ok"
        /\ main_macro = <<>>

\* with at least one generator the run of a config without a Varadict entry,
\* or with two, ends in an error before any repeat section is written
C23_Witness ==
    /\ a_pc = "returned"
    /\ Len(config.generator) = 2
    /\ config.core.varadict = <<>>
    /\ a_result = "NonExistantArgument"
    /\ repeats = <<>>
    /\ main_macro = <<>>

-----------------------------------------------------------------------------
(* C24: the table of the named arguments.                                  *)

KeyDeclaredTwice ==
    \E a, b \in 1..Len(config.core.named_keys) :
        a < b /\ config.core.named_keys[a] = config.core.named_keys[b]

\* C24: when two named arguments have the same key, compile_and_assemble
\* returns DuplicateArgument from load_named_arguments, before any string is
\* surface compiled; otherwise the table maps each key to the name of its own
\* argument and holds no other key.
C24_NamedArguments ==
    a_pc # "load" =>
        IF KeyDeclaredTwice
        THEN /\ a_pc = "returned"
             /\ a_result = "DuplicateArgument"
             /\ compilable = 0
             /\ config = loaded
             /\ named = <<>>
        ELSE /\ DOMAIN named = ArgumentKeys
             /\ \A a \in 1..Len(config.core.named_keys) :
                   named[config.core.named_keys[a]].string = config.core.named_args[a]

\* the run of a config with two arguments of key k and two generators ended
\* at load_named_arguments
C24_Witness ==
    /\ a_pc = "returned"
    /\ a_result = "DuplicateArgument"
    /\ config.core.named_keys = <<<<"k">>, <<"k">>>>
    /\ Len(config.generator) = 2
    /\ Len(config.core.varadict) = 1
    /\ config = loaded

-----------------------------------------------------------------------------
(* C25: a string that is not preprocessed ends the compile stage.           *)

\* the call of compile_surface_string that is due
SurfaceRef == load_surface_compilable_strings(config)[compilable]

\* the first reference of a token list that names an argument whose name is
\* NotPreprocessed, every reference before it naming an argument of the table
ReadsUnresolvedName(tokens) ==
    \E k \in 1..Len(tokens) :
        /\ tokens[k].type = "NamedArgumentRef"
        /\ tokens[k].value \in DOMAIN named
        /\ named[tokens[k].value].state = "NotPreprocessed"
        /\ \A j \in 1..k - 1 :
              tokens[j].type = "NamedArgumentRef" => tokens[j].value \in DOMAIN named

SomeNameUnresolved == config.core.names_not_preprocessed # {}

\* the operation that is due reads a string that is NotPreprocessed
ReadsUnresolved ==
    \/ /\ a_pc = "surface"
       /\ \/ not_preprocessed(config, SurfaceRef)
          \/ /\ tokenize_surface(read(config, SurfaceRef)).err = "None"
             /\ ReadsUnresolvedName(tokenize_surface(read(config, SurfaceRef)).parts)
    \/ /\ a_pc = "preamble"
       /\ config.preamble # <<>>
       /\ config.preamble[1].state = "NotPreprocessed"
    \/ /\ a_pc = "generator"
       /\ suffix < Len(config.generator)
       /\ \/ this_generator.not_preprocessed \ {"repeat"} # {}
          \/ SomeNameUnresolved
          \/ Len(config.core.varadict) = 1 /\ "repeat" \in this_generator.not_preprocessed
    \/ /\ a_pc = "generator"
       /\ suffix = Len(config.generator)
       /\ "xmva" \in config.core.not_preprocessed \/ SomeNameUnresolved

\* the operation returns NotPreprocessed and leaves every text as it was
UnresolvedStep ==
    ReadsUnresolved =>
        /\ a_pc' = "returned"
        /\ a_result' = "NotPreprocessed"
        /\ UNCHANGED <<config, file_preamble, repeats, generators, main_macro>>

\* a string that is NotPreprocessed is never part of a produced file
NoUnresolvedInFile ==
    FileProduced =>
        /\ config.core.not_preprocessed = {}
        /\ config.core.names_not_preprocessed = {}
        /\ config.preamble # <<>> => config.preamble[1].state = "Preprocessed"
        /\ \A g \in 1..Len(config.generator) : config.generator[g].not_preprocessed = {}

-----------------------------------------------------------------------------
(* C26: the macros of a repeat section.                                    *)

\* the entries of a parameter list written as text: none for the empty text
ParameterList(text) == IF text = <<>> THEN <<>> ELSE SplitArguments(text, <<>>)

SentinelSlot == <<"_", "_", "N", "A", "M", "E", "_", "_">>
TrailingCapture == <<".", ".", ".">>

\* C26: for every repeat count R >= 0 a finished repeat section holds exactly
\* R count macros, the one of count c in position c for c = 0 .. R-1, then
\* exactly one picker macro whose parameters are R placeholders, the sentinel
\* slot and the trailing capture, and whose body is the sentinel slot alone.
C26_RepeatSection ==
    \A g \in 1..Len(repeats) :
        LET R == config.common.repeats
            section == repeats[g]
        IN  /\ Len(section) = R + 1
            /\ \A c \in 0..R - 1 :
                  section[c + 1].name = generate_repeat_name(config.common, c, g - 1)
            /\ section[R + 1].name = generate_repeat_picker_macro_name(config.common, g - 1)
            /\ ParameterList(section[R + 1].params)
                   = placeholders(R) \o <<SentinelSlot, TrailingCapture>>
            /\ section[R + 1].body = SentinelSlot

\* a finished section for R = 3: three count macros and the picker
C26_Witness ==
    /\ config.common.repeats = 3
    /\ Len(repeats) = 1
    /\ Len(repeats[1]) = 4
    /\ ParameterList(repeats[1][4].params)
           = <<placeholder(0), placeholder(1), placeholder(2), SentinelSlot, TrailingCapture>>

-----------------------------------------------------------------------------
(* C27: the parameters of a count macro.                                   *)

\* C27: for any number of named arguments, none included, and every count c,
\* the parameter list of the count-c macro of a finished repeat section is
\* the names of the named arguments in declared order followed by the
\* placeholders __0__ .. __<c-1>__, and nothing else.
C27_CountMacroParameters ==
    \A g \in 1..Len(repeats) : \A c \in 0..Len(repeats[g]) - 2 :
        ParameterList(repeats[g][c + 1].params)
            = config.core.named_args \o placeholders(c)

\* with one named argument the count-2 macro takes n, __0__, __1__
C27_Witness ==
    /\ Len(repeats) = 1
    /\ Len(repeats[1]) >= 4
    /\ config.core.named_args = <<<<"n">>>>
    /\ ParameterList(repeats[1][3].params) = <<<<"n">>, placeholder(0), placeholder(1)>>

-----------------------------------------------------------------------------
(* C28: the outer macro and the entry macros.                              *)

\* the text of the picker arguments before the candidate names
PickerArgsHead ==
    <<"\"", "e", "m", "p", "t", "y", "\"", ",", " ",
      "#", "#", "_", "_", "V", "A", "_", "A", "R", "G", "S", "_", "_", ",", " ">>

\* the candidate names an invocation hands to the picker
CandidateNames(invocation) ==
    ParameterList(SubSeq(invocation.picker_args, Len(PickerArgsHead) + 1,
                         Len(invocation.picker_args)))

\* the names of the count macros of the finished repeat section g
CountMacroNames(g) == {repeats[g][c].name : c \in 1..Len(repeats[g]) - 1}

\* the arguments of the call `__GEN__(..)` that is the body of an entry macro
ForwardedArguments(entry) ==
    SplitArguments(SubSeq(entry.body, 9, Len(entry.body) - 1), <<>>)

\* an entry macro hands every parameter before __GEN__ and the trailing
\* arguments, in the order received, to the macro it is given as __GEN__;
\* the parameters before __GEN__ are what the outer macro passes as the named
\* arguments (with no named argument, one empty entry)
Forwards(entry) ==
    LET params == SplitArguments(entry.params, <<>>)
        args == ForwardedArguments(entry)
    IN  /\ SubSeq(entry.body, 1, 8) = <<"_", "_", "G", "E", "N", "_", "_", "(">>
        /\ entry.body[Len(entry.body)] = ")"
        /\ Len(params) = Len(args) + 1
        /\ params[Len(params) - 1] = <<"_", "_", "G", "E", "N", "_", "_">>
        /\ params[Len(params)] = TrailingCapture
        /\ args[Len(args)] = <<"_", "_", "V", "A", "_", "A", "R", "G", "S", "_", "_">>
        /\ \A k \in 1..Len(args) - 1 : args[k] = params[k]
        /\ SubSeq(params, 1, Len(params) - 2) = SplitArguments(main_macro.body[1].named, <<>>)
        /\ config.core.named_args # <<>> =>
               SubSeq(params, 1, Len(params) - 2) = config.core.named_args

-----------------------------------------------------------------------------
(* C29: the progress check after a sweep.                                  *)

Unresolved(table) == {k \in DOMAIN table : table[k].state = "NotPreprocessed"}

\* the sweep that ends at the check is the first one: `left` still is
\* keys.len(), which no later sweep leaves in it
FirstSweep == left = Cardinality(DOMAIN keys)

\* the number of entries that were unresolved when the sweep began
UnresolvedBeforeSweep ==
    IF FirstSweep THEN Cardinality(Unresolved(cfg_keys)) ELSE left

\* the check after a sweep that left entries unresolved and did not lower
\* their number ends the run
NoProgressStep ==
    (/\ r_pc = "check"
     /\ r_pc' # "check"
     /\ Unresolved(keys) # {}
     /\ Cardinality(Unresolved(keys)) >= UnresolvedBeforeSweep)
    => /\ r_pc' = "returned"
       /\ r_result' = "MutualReferences"

\* C29: after every sweep, the first one included, if entries are still
\* unresolved and their number has not decreased relative to the number
\* unresolved before that sweep, the run ends with MutualReferences at that
\* check and no further sweep is started.
C29_ProgressOrFail == [][NoProgressStep]_vars

\* the check after a second sweep that resolved nothing ended the run
C29_Witness ==
    /\ r_pc = "returned"
    /\ r_result = "MutualReferences"
    /\ ~FirstSweep
    /\ now_left = left
    /\ Cardinality(Unresolved(keys)) = left
    /\ Cardinality(Unresolved(cfg_keys)) > left

-----------------------------------------------------------------------------
(* C30: no named reference among the tokens the expander expands.           *)

HoldsNamedArgumentRef(tokens) ==
    \E k \in 1..Len(tokens) : tokens[k].type = "NamedArgumentRef"

\* C30: for every configuration that passed the surface compilation and
\* whose repeat body tokenizes, the tokens the repeat expander expands hold
\* no NamedArgumentRef, and the expander never ends in the unreachable!() of
\* its NamedArgumentRef arm.
C30_NoNamedArgumentRef ==
    /\ ~HoldsNamedArgumentRef(le_tokens)
    /\ ~(a_pc = "panicked" /\ tok >= 1 /\ le_tokens[tok].type = "NamedArgumentRef")

\* the expander works on the repeat body "${k}$." of the config, in which
\* the surface compilation put the name n for the reference
C30_Witness ==
    /\ a_pc = "tokens"
    /\ HoldsNamedArgumentRef(tokenize(loaded.generator[suffix + 1].repeat).parts)
    /\ le_tokens = <<Raw(<<"n">>), Position>>

-----------------------------------------------------------------------------
(* C31: compile_and_assemble leaves the strings of the config as they were. *)

\* C31: after compile_and_assemble returned, every string of the config
\* (the fallbacks, the preamble, the repeat body and the postamble of every
\* generator, and the names of the named arguments) holds the text it held
\* before the call.
C31_SpecsNotRewritten ==
    a_pc = "returned" => config = loaded

\* a config whose strings hold neither a reference nor an escape went
\* through the whole of compile_and_assemble and holds the texts it held
C31_Witness ==
    /\ a_pc = "returned"
    /\ a_result = "Ok"
    /\ loaded.generator # <<>>
    /\ config = loaded

-----------------------------------------------------------------------------
(* C32: the outcome of the resolver does not depend on the sweep order.     *)

\* the keys of S in one fixed order
RECURSIVE InOrder(_)
InOrder(S) ==
    IF S = {} THEN <<>>
    ELSE LET k == CHOOSE x \in S : TRUE IN <<k>> \o InOrder(S \ {k})

\* one sweep of preprocess_key_name_pairs visiting the entries in `order`:
\* [err, keys, now_left]
RECURSIVE sweep_in_order(_, _, _)
sweep_in_order(order, table, deferred) ==
    IF order = <<>> THEN [err |-> "None", keys |-> table, now_left |-> deferred]
    ELSE LET key == Head(order)
             entry == table[key]
             lexed == into_preprocessor_tokens(entry, prefix)
             attempt == preprocessor_token_assembly_attempt(lexed.parts, table)
         IN  IF entry.state = "Preprocessed"
             THEN sweep_in_order(Tail(order), table, deferred)
             ELSE IF lexed.err # "None"
             THEN [err |-> lexed.err, keys |-> table, now_left |-> deferred]
             ELSE IF attempt.kind = "NonExistantReference"
             THEN [err |-> attempt.kind, keys |-> table, now_left |-> deferred]
             ELSE IF attempt.kind = "None"
             THEN sweep_in_order(Tail(order), table, deferred + 1)
             ELSE sweep_in_order(Tail(order),
                                 [table EXCEPT ![key] = PreprocessedAs(entry, attempt.text)],
                                 deferred)

\* preprocess_key_name_pairs with every sweep in the one fixed order:
\* [result, keys]
RECURSIVE run_in_order(_, _)
run_in_order(table, before) ==
    IF before = 0 THEN [result |-> "Ok", keys |-> table]
    ELSE LET sweep == sweep_in_order(InOrder(DOMAIN table), table, 0)
         IN  IF sweep.err # "None" THEN [result |-> sweep.err, keys |-> sweep.keys]
             ELSE IF progress_failed(sweep.now_left, before)
             THEN [result |-> "MutualReferences", keys |-> sweep.keys]
             ELSE run_in_order(sweep.keys, sweep.now_left)

\* the table holds several entries whose sources are resolved one after
\* the other
Chained == \E k1, k2 \in DOMAIN cfg_keys : k1 # k2 /\ k2 \in Refs(k1) /\ Refs(k2) # {}

\* C32: whatever the order in which the sweeps visit the entries, the
\* resolver returns what the run in one fixed order returns for the same
\* table: Ok with the same resolved text in every entry, or the same kind of
\* error.
C32_Determinism ==
    (r_pc = "returned" /\ ResolverRuns) =>
        LET fixed == run_in_order(cfg_keys, Cardinality(DOMAIN cfg_keys))
        IN  /\ r_result = fixed.result
            /\ r_result = "Ok" => keys = fixed.keys

\* a chain of references resolved to Ok, every entry holding the text the
\* run in the fixed order gives it
C32_Witness ==
    /\ r_pc = "returned"
    /\ r_result = "Ok"
    /\ Chained
    /\ keys = run_in_order(cfg_keys, Cardinality(DOMAIN cfg_keys)).keys

-----------------------------------------------------------------------------
(* C33: an attempt that meets an unresolved target is abandoned.            *)

\* token i is the first reference of the tokens that cannot be spliced, and
\* its target is an entry that is still NotPreprocessed
MeetsUnresolvedAt(tokens, i) ==
    /\ tokens[i].type = "Key"
    /\ tokens[i].value \in DOMAIN keys
    /\ keys[tokens[i].value].state = "NotPreprocessed"
    /\ \A j \in 1..(i - 1) :
          tokens[j].type = "Key" =>
              /\ tokens[j].value \in DOMAIN keys
              /\ keys[tokens[j].value].state = "Preprocessed"

\* the attempt on entry key meets a reference to an unresolved target
Abandons(key) ==
    LET lexed == into_preprocessor_tokens(keys[key], prefix)
    IN  /\ keys[key].state = "NotPreprocessed"
        /\ lexed.err = "None"
        /\ \E i \in 1..Len(lexed.parts) : MeetsUnresolvedAt(lexed.parts, i)

\* a step of the sweep that visits an entry whose attempt is abandoned
\* writes no entry, counts one more deferred entry, returns nothing and goes
\* on with the entries left; a step that returns an error visited an entry
\* whose attempt is not abandoned
AbandonStep ==
    r_pc = "for" =>
        /\ \A key \in todo :
              (Abandons(key) /\ todo' = todo \ {key}) =>
                  /\ keys' = keys
                  /\ now_left' = now_left + 1
                  /\ r_result' = r_result
                  /\ r_pc' = IF todo' = {} THEN "check" ELSE "for"
        /\ r_pc' = "returned" =>
              \E key \in todo : keys[key].state = "NotPreprocessed" /\ ~Abandons(key)

\* C33: an attempt that meets a reference whose target is still unresolved
\* is abandoned without error: the entry stays unresolved with its source
\* unchanged, no other entry changes, the deferred count of the sweep rises
\* by one, and the sweep goes on with the next entry.
C33_Abandon == [][AbandonStep]_vars

\* entry a, whose source refers to b, was deferred while another entry is
\* still to be visited: a and b hold their sources, one entry is counted
C33_Witness ==
    /\ r_pc = "for"
    /\ <<"a">> \in DOMAIN keys /\ <<"b">> \in DOMAIN keys
    /\ <<"b">> \in Refs(<<"a">>)
    /\ <<"a">> \notin todo
    /\ todo # {}
    /\ Abandons(<<"a">>)
    /\ keys = cfg_keys
    /\ now_left = 1
    /\ left = Cardinality(DOMAIN keys)

-----------------------------------------------------------------------------
(* C34: an entry of the key table is resolved at most once.                 *)

\* a step of Config::preprocess, in the resolver or in the string
\* substitutor, keeps every Preprocessed entry of the key table as it is,
\* and writes a NotPreprocessed entry only to make it Preprocessed
ResolvedOnceStep ==
    \A k \in DOMAIN keys :
        /\ k \in DOMAIN keys'
        /\ keys[k].state = "Preprocessed" => keys'[k] = keys[k]
        /\ keys'[k] # keys[k] => keys'[k].state = "Preprocessed"

\* a step of a sweep that visits a Preprocessed entry skips it: no entry is
\* written and nothing is counted
SkipStep ==
    (r_pc = "for" /\ \E k \in todo : keys[k].state = "Preprocessed" /\ todo' = todo \ {k}) =>
        /\ keys' = keys
        /\ now_left' = now_left
        /\ r_result' = r_result

\* C34: over a whole run of Config::preprocess every entry of the key table
\* goes from unresolved to resolved at most once: a resolved entry is
\* skipped by every later sweep, its text is never rewritten by the resolver
\* or by the string substitutor, and it never becomes unresolved again.
C34_ResolvedOnce == [][ResolvedOnceStep /\ SkipStep]_vars

\* the second sweep skipped entry b, resolved by the first, and has entry a,
\* deferred by the first, still to visit
C34_Witness ==
    /\ r_pc = "for"
    /\ left = 1 /\ now_left = 0
    /\ <<"a">> \in DOMAIN keys /\ <<"b">> \in DOMAIN keys
    /\ cfg_keys[<<"b">>].state = "NotPreprocessed"
    /\ keys[<<"b">>].state = "Preprocessed"
    /\ keys[<<"a">>].state = "NotPreprocessed"
    /\ todo = {<<"a">>}

-----------------------------------------------------------------------------
(* C35: the automatic prefix.                                               *)

\* the source of a name as configured, with its key references substituted
\* from the key table
SubstitutedName(k) ==
    preprocessor_token_assembly_attempt(
        preprocessor_string_tokenizer(cfg_keys[k].string).parts, keys).text

\* the name of entry k carries the NO_PREFIX tag
TaggedNoPrefix(k) ==
    \E t \in 1..Len(cfg_keys[k].tags) : cfg_keys[k].tags[t] = "NoPrefix"

\* C35: the name of a preamble key or of a definition, once resolved, is the
\* common prefix verbatim followed by the name with its key references
\* substituted, for every prefix; a name tagged NO_PREFIX is resolved to the
\* substituted name alone.
C35_AutomaticPrefix ==
    \A k \in DOMAIN keys :
        (cfg_keys[k].variant = "Name" /\ keys[k].state = "Preprocessed") =>
            keys[k].string = IF TaggedNoPrefix(k) THEN SubstitutedName(k)
                             ELSE prefix \o SubstitutedName(k)

\* the resolver returned Ok with an untagged name holding the prefix "P"
\* before the text of the key it refers to, and a tagged name without it
C35_Witness ==
    /\ r_pc = "returned" /\ r_result = "Ok"
    /\ prefix = <<"P">>
    /\ <<"a">> \in DOMAIN keys /\ <<"b">> \in DOMAIN keys
    /\ cfg_keys[<<"a">>].string = KeyRef(<<"b">>) /\ ~TaggedNoPrefix(<<"a">>)
    /\ cfg_keys[<<"b">>].string = <<"y">> /\ TaggedNoPrefix(<<"b">>)
    /\ keys[<<"b">>].string = <<"y">>
    /\ keys[<<"a">>].string = <<"P", "y">>

-----------------------------------------------------------------------------
(* C36: the entries left unresolved when MutualReferences is returned.      *)

\* every key of a Name entry, resolved or not
key_names_of_every_name(table) ==
    {k \in DOMAIN table : table[k].variant = "Name"}

\* the filter_map of the MutualReferences arm: the keys the message names,
\* the Name entries that are NotPreprocessed
key_names(table) ==
    {k \in DOMAIN table :
        table[k].variant = "Name" /\ table[k].state = "NotPreprocessed"}

\* the keys from which a reference cycle is reached in the graph of the
\* table as loaded: a key on a cycle, or a key that depends on one
ReachesCycle ==
    {k \in DOMAIN cfg_keys :
        \/ k \in Reach(k)
        \/ \E c \in Reach(k) \cap DOMAIN cfg_keys : c \in Reach(c)}

\* C36: when preprocess_key_name_pairs returns MutualReferences, the
\* entries left unresolved are exactly the keys from which a reference cycle
\* (a self-reference included) is reached; every other entry is resolved,
\* the error names exactly the unresolved entries, and the set is that of
\* the table as loaded, whatever the order of the sweeps.
C36_MutualReferenceSet ==
    (r_pc = "returned" /\ r_result = "MutualReferences") =>
        /\ Unresolved(keys) = ReachesCycle
        /\ \A k \in DOMAIN keys \ ReachesCycle : keys[k].state = "Preprocessed"
        /\ \A k \in ReachesCycle : keys[k] = cfg_keys[k]
        /\ key_names(keys) = Unresolved(keys)

\* MutualReferences returned on a table in which a refers to itself and b
\* does not depend on a: a is unresolved, b and the prefix are resolved
C36_Witness ==
    /\ r_pc = "returned" /\ r_result = "MutualReferences"
    /\ DOMAIN keys = {<<"a">>, <<"b">>, PrefixKey}
    /\ Refs(<<"a">>) = {<<"a">>}
    /\ ReachesCycle = {<<"a">>}
    /\ keys[<<"b">>].state = "Preprocessed"
    /\ cfg_keys[<<"b">>].state = "NotPreprocessed"
    /\ key_names(keys) = {<<"a">>}

-----------------------------------------------------------------------------
(* C37: after Config::preprocess returned Ok nothing is NotPreprocessed.    *)

\* Config::preprocess returned Ok(())
PreprocessOk == r_pc = "returned" /\ r_result = "Ok" /\ s_pc = "returned" /\ s_result = "Ok"

-----------------------------------------------------------------------------
(* C38: the arguments a selected count macro is invoked with.               *)

VaArgs == <<"_", "_", "V", "A", "_", "A", "R", "G", "S", "_", "_">>

\* the arguments of the call `__GEN__(..)` of an entry macro once the C
\* preprocessor has put the trailing arguments `caller` in the place of
\* __VA_ARGS__: with no trailing argument the comma before __VA_ARGS__ stays
\* (it is not written ##__VA_ARGS__) and the call ends in an empty argument
CountMacroCall(entry, caller) ==
    LET args == ForwardedArguments(entry)
    IN  Concat([k \in 1..Len(args) |->
                   IF args[k] = VaArgs
                   THEN IF caller = <<>> THEN <<<<>>>> ELSE caller
                   ELSE <<args[k]>>])

\* C38: for every repeat count R >= 1 and every number c of caller trailing
\* arguments with 0 <= c <= R-1, c = 0 included, the count-c macro the
\* picker selects is invoked through the entry macro with exactly as many
\* arguments as it declares parameters: the named arguments plus c.
C38_CountMacroArity ==
    FileProduced =>
        \A g \in 1..Len(config.generator) : \A c \in 0..(config.common.repeats - 1) :
            LET call == CountMacroCall(generators[g], CallerArguments(c))
                declared == ParameterList(CountMacro(g, c).params)
            IN  /\ Len(call) = Len(declared)
                /\ Len(declared) = Len(config.core.named_args) + c

\* with one named argument and two trailing arguments the count-2 macro
\* declares n, __0__, __1__ and is invoked with n, x1, x2
C38_Witness ==
    /\ FileProduced
    /\ config.common.repeats >= 3
    /\ config.core.named_args = <<<<"n">>>>
    /\ Len(generators) >= 1
    /\ CountMacroCall(generators[1], CallerArguments(2)) = <<<<"n">>, <<"x", "1">>, <<"x", "2">>>>
    /\ ParameterList(CountMacro(1, 2).params) = <<<<"n">>, placeholder(0), placeholder(1)>>

-----------------------------------------------------------------------------
(* C39: the placeholders a count macro's body names.                        *)

\* the text the step appended to the body of the line being written
Emitted == SubSeq(current_body', Len(current_body) + 1, Len(current_body'))

\* the expansion of an UnamedArgumentRef(n) token in iteration i of the
\* count-c macro names slot n + i*V, which is below c, and the name is one
\* of the parameters the line declares
DeclaredSlotStep ==
    (a_pc = "tokens" /\ le_tokens[tok].type = "UnamedArgumentRef") =>
        /\ le_tokens[tok].n + iter_i * config.core.va_args < current_repetiton
        /\ \E k \in 1..current_repetiton : Emitted = placeholders(current_repetiton)[k]
        /\ \E k \in 1..Len(ParameterList(generated_repeats[Len(generated_repeats)].params)) :
              ParameterList(generated_repeats[Len(generated_repeats)].params)[k] = Emitted

\* C39: every placeholder name that an IndexedArgRef(n) emits into the body
\* of a count-c macro is one of the c positional parameters the macro
\* declares (its slot n + i*V is below c), for every index n the template
\* lexer accepts and every iteration i.
C39_DeclaredSlots == [][DeclaredSlotStep]_vars

\* the count-2 macro of the repeat body "$(0)$[,]" with V = 1 is complete up
\* to its postamble: its body names __0__ and __1__, both declared
C39_Witness ==
    /\ a_pc = "postamble"
    /\ current_repetiton = 2
    /\ config.core.va_args = 1
    /\ le_tokens = <<UnamedArgumentRef(0), SkipLast(<<",">>)>>
    /\ current_body = <<"<">> \o placeholder(0) \o <<",">> \o placeholder(1)
    /\ ParameterList(generated_repeats[Len(generated_repeats)].params)
           = config.core.named_args \o <<placeholder(0), placeholder(1)>>

-----------------------------------------------------------------------------
(* C40: the choice between the expansion and the unparity fallback.         *)

\* the step that chooses between the repeat expansion and the unparity
\* fallback for one count goes on with the macro or with the next count; it
\* does not abort
ParityStep ==
    a_pc = "for" => a_pc' \in {"for", "tokens", "postamble", "generator", "returned"}

\* C40: for every group size the configuration accepts, any unsigned
\* integer with 0 included, and every repeat count R,
\* compile_and_assemble_repeat_string returns the generated text or an
\* error; it never aborts while choosing between the repeat expansion and
\* the unparity fallback.
C40_ParityNeverAborts == [][ParityStep]_vars

\* the group size 0 with R = 1: no count above 0, the text is returned
C40_Witness ==
    /\ FileProduced
    /\ config.core.varadict = <<0>>
    /\ config.common.repeats = 1
    /\ Len(repeats) = 1
    /\ Len(repeats[1]) = 2

=============================================================================
